---- MODULE Spec2Model ----
(***************************************************************************)
(* Model of the query orchestration layer of UCAP-agent-demo:              *)
(*   orchestrator/executor.py  Executor (concurrent fan-out, aggregation)  *)
(*   agents/base.py            BaseAgent._apply_filters                    *)
(* One tick of the clock `now` is one millisecond; the clock runs while     *)
(* execute blocks in wait() and durations are whole milliseconds.          *)
(* A source holds the same key list in each of its four collections; the   *)
(* filter's entity_type and limit make the collections differ.  Requests   *)
(* carry no date bounds.                                                   *)
(***************************************************************************)
EXTENDS Integers, Sequences, FiniteSets, TLC

\* ------------------------------------------------------------------ bounds
\* largest timeout_ms a request carries
MaxTimeout == 1
\* the result cap (limit) of the requests that carry one
MaxLimit == 1
\* longest list handed to _dedup_list_by_id in SpecDedup
MaxItems == 4

\* ------------------------------------------------------- program constants
\* router.py SUPPORTED_SYSTEMS, in dict order
SystemOrder == <<"erp", "hr", "fin">>
Systems == {SystemOrder[i] : i \in 1..Len(SystemOrder)}
\* the four collections of the unified result
EntityTypes == {"organizations", "persons", "customers", "transactions"}
\* the primary keys, in order, of the entities a source may hold per entity
\* type; "" is a missing (falsy) key
SourceKeyLists == {<<>>, <<"a", "", "a">>}
\* keys of the lists handed to _dedup_list_by_id in SpecDedup
DedupKeys == {"", "a", "b"}
\* entity_type values of the normalized filter ("none": key absent)
FilterTypes == {"none", "persons"}

Min(a, b) == IF a < b THEN a ELSE b
Max(a, b) == IF a > b THEN a ELSE b

SeqsUpTo(S, n) == UNION {[1..k -> S] : k \in 0..n}

RECURSIVE SumOver(_, _)
SumOver(f, S) == IF S = {} THEN 0
                 ELSE LET x == CHOOSE y \in S : TRUE
                      IN f[x] + SumOver(f, S \ {x})

\* --------------------------------------------------------------- variables
VARIABLES
    agents,                  \* execute's agents argument: sequence of system keys
    filter_params,           \* normalized filter: [entity_type, limit] (limit 0: absent)
    timeout_ms,              \* execute's timeout_ms argument
    pc,                      \* position of the thread running execute
    now,                     \* ms elapsed since the tasks were submitted, up to wait()'s return
    task,                    \* per selected source: its future and worker
    done, pending,           \* the two sets returned by wait()
    handled,                 \* futures the two for-loops have visited
    aggregated,              \* entity type -> list
    errors,                  \* list of error strings
    per_agent_duration_ms,   \* dict system -> duration
    per_agent_result_counts, \* dict system -> entity type -> count
    success_count, fail_count,
    items, deduped, pass     \* SpecDedup: argument, result, number of passes

execVars == <<agents, filter_params, timeout_ms, pc, now, task, done, pending,
              handled, aggregated, errors, per_agent_duration_ms,
              per_agent_result_counts, success_count, fail_count>>
dedupVars == <<items, deduped, pass>>

VARIABLES
    systems,                 \* the caller's systems argument (None or a list)
    inferred_sys,            \* nl_query: the systems the inference returned
    final_systems,           \* nl_query: the systems handed to query_across_systems
    system_keys,             \* validate_systems: the resolved list
    sys_warnings,            \* validate_systems: its warnings
    raw_filter_params,       \* validate_filter_params: its argument (None or a dict)
    normalized,              \* validate_filter_params: the dict it returns
    fp_warnings              \* validate_filter_params: its warnings

routeVars == <<systems, inferred_sys, final_systems, system_keys, sys_warnings>>
filterVars == <<raw_filter_params, normalized, fp_warnings>>

VARIABLES
    text,                    \* nl_query / infer: what the recognizers find in the text
    default_filters,         \* nl_query / infer: the caller's default_filters (None or a dict)
    nl_timeout_ms,           \* nl_query: the caller's timeout_ms
    settings,                \* enable_time_enhancements, enable_narrow_time_llm
    parsed,                  \* infer: what _call_llm returned for the main prompt
    normalized_fp,           \* infer: the filter being built
    normalized_sys,          \* infer: the systems being built
    llm_warnings,            \* infer: its warnings list
    llm_metrics,             \* infer: llm_used, llm_status and the two time flags
    inferred_timeout,        \* infer: result["timeout_ms"] (None when not set)
    narrow,                  \* infer: what _extract_time_narrow returned, if called
    fp_before_narrow,        \* infer: the filter as it was before the narrow stage
    phrase                   \* _fallback_parse: the "last N" phrase as written

llmVars == <<text, default_filters, nl_timeout_ms, settings, parsed, normalized_fp,
             normalized_sys, llm_warnings, llm_metrics, inferred_timeout, narrow,
             fp_before_narrow, phrase>>
restVars == <<routeVars, filterVars, llmVars>>
vars == <<execVars, dedupVars, restVars>>

\* an optional argument: None, or a value
NoneArg == [none |-> TRUE, v |-> <<>>]
Some(x) == [none |-> FALSE, v |-> x]

\* the router's variables while no routing is going on
RouteIdle ==
    /\ systems = NoneArg
    /\ inferred_sys = NoneArg
    /\ final_systems = NoneArg
    /\ system_keys = <<>>
    /\ sys_warnings = <<>>

FilterIdle ==
    /\ raw_filter_params = NoneArg
    /\ normalized = <<>>
    /\ fp_warnings = <<>>

\* the metrics infer starts from
NoMetrics == [llm_used |-> FALSE, llm_status |-> "degraded",
              time_narrow_used |-> FALSE, time_anchor_override_used |-> FALSE]

\* a text in which no recognizer finds anything
PlainText == [kw |-> {}, fixed |-> {}, rel |-> 0, unit |-> ""]
\* no "last N" phrase written out
NoPhrase == [digits |-> FALSE, n |-> 0, tokens |-> <<>>, measure |-> FALSE, word |-> ""]

\* both switches of config.settings off
SwitchesOff == [enable_time_enhancements |-> FALSE, enable_narrow_time_llm |-> FALSE]

\* the inference's variables while no inference is going on
LlmIdle ==
    /\ text = PlainText
    /\ default_filters = NoneArg
    /\ nl_timeout_ms = 0
    /\ settings = SwitchesOff
    /\ parsed = NoneArg
    /\ normalized_fp = <<>>
    /\ normalized_sys = <<>>
    /\ llm_warnings = <<>>
    /\ llm_metrics = NoMetrics
    /\ inferred_timeout = NoneArg
    /\ narrow = "not_called"
    /\ fp_before_narrow = <<>>
    /\ phrase = NoPhrase

\* ------------------------------------------------------------ pure helpers
NoItems == [t \in EntityTypes |-> <<>>]
ZeroCounts == [t \in EntityTypes |-> 0]
NoErr == [kind |-> "none", source |-> "", timeout |-> 0]
NoResult == [system |-> "", hasData |-> FALSE, data |-> NoItems, hasErr |-> FALSE,
             err |-> NoErr, dur |-> 0, counts |-> ZeroCounts, raised |-> FALSE]

\* a _system_key that always takes its last fallback
SystemKeyUnknown(a) == "unknown"

\* Executor._system_key: the agent's system_type value, lower-cased
SystemKey(a) == a

\* the entities a source holds for one entity type, given their keys in order
RawList(s, t, keys) ==
    [i \in 1..Len(keys) |-> [id |-> keys[i], sys |-> s, pos |-> i]]

RECURSIVE DedupFrom(_, _, _)
DedupFrom(list, i, seen) ==
    IF i > Len(list) THEN <<>>
    ELSE LET key == list[i].id
         IN IF key = "" THEN <<list[i]>> \o DedupFrom(list, i + 1, seen)
            ELSE IF key \notin seen
                 THEN <<list[i]>> \o DedupFrom(list, i + 1, seen \cup {key})
                 ELSE DedupFrom(list, i + 1, seen)

\* a dedup that treats the empty key like any other key
RECURSIVE DedupFromKeyed(_, _, _)
DedupFromKeyed(list, i, seen) ==
    IF i > Len(list) THEN <<>>
    ELSE IF list[i].id \notin seen
         THEN <<list[i]>> \o DedupFromKeyed(list, i + 1, seen \cup {list[i].id})
         ELSE DedupFromKeyed(list, i + 1, seen)

DedupListByIdKeyed(list) == DedupFromKeyed(list, 1, {})

\* Executor._dedup_list_by_id
DedupListById(list) == DedupFrom(list, 1, {})

\* BaseAgent._apply_filters without the slice to limit
ApplyFiltersNoLimit(list, t, f) ==
    IF f.entity_type # "none" /\ f.entity_type # t THEN <<>> ELSE list

ApplyFiltersAnyType(list, t, f) ==
    IF list # <<>> /\ f.limit # 0
    THEN SubSeq(list, 1, Min(f.limit, Len(list)))
    ELSE list

\* BaseAgent._apply_filters for one entity type (requests carry no date bounds)
ApplyFilters(list, t, f) ==
    LET typed == IF f.entity_type # "none" /\ f.entity_type # t THEN <<>> ELSE list
    IN IF typed # <<>> /\ f.limit # 0
       THEN SubSeq(typed, 1, Min(f.limit, Len(typed)))
       ELSE typed

\* BaseAgent.query_canonical on a source whose four collections hold `keys`
QueryCanonical(s, keys, f) ==
    [t \in EntityTypes |-> ApplyFilters(RawList(s, t, keys), t, f)]

\* what a call of agent.query_canonical does: return data, raise an AgentError
\* (DataSourceError, DataMappingError), or raise any other Exception
Outcomes(s, f) ==
    {[kind |-> "ok", data |-> QueryCanonical(s, keys, f)] :
        keys \in SourceKeyLists}
    \cup {[kind |-> k, data |-> NoItems] : k \in {"agent_error", "exception"}}

\* the error strings of executor.py, field by field
FailedMsg(s) == [kind |-> "failed", source |-> s, timeout |-> 0]
UnexpectedMsg(s) == [kind |-> "unexpected", source |-> s, timeout |-> 0]
TimeoutMsg(s, ms) == [kind |-> "timeout", source |-> s, timeout |-> ms]

\* a _safe_query without its except clauses: the exception escapes the worker
SafeQueryNoCatch(a, outcome, dur) ==
    IF outcome.kind = "ok"
    THEN LET d == [t \in EntityTypes |-> DedupListById(outcome.data[t])]
         IN [system |-> SystemKey(a), hasData |-> TRUE, data |-> d, hasErr |-> FALSE,
             err |-> NoErr, dur |-> dur, counts |-> [t \in EntityTypes |-> Len(d[t])],
             raised |-> FALSE]
    ELSE [NoResult EXCEPT !.raised = TRUE]

\* a _safe_query whose except clauses return an empty result without an error
SafeQuerySwallow(a, outcome, dur) ==
    LET d == [t \in EntityTypes |-> DedupListById(outcome.data[t])]
    IN [system |-> SystemKey(a), hasData |-> TRUE, data |-> d, hasErr |-> FALSE,
        err |-> NoErr, dur |-> dur, counts |-> [t \in EntityTypes |-> Len(d[t])],
        raised |-> FALSE]

\* Executor._safe_query: (system, result, error_msg, duration_ms, counts)
SafeQuery(a, outcome, dur) ==
    IF outcome.kind = "ok"
    THEN LET d == [t \in EntityTypes |-> DedupListById(outcome.data[t])]
         IN [system |-> SystemKey(a), hasData |-> TRUE, data |-> d, hasErr |-> FALSE,
             err |-> NoErr, dur |-> dur, counts |-> [t \in EntityTypes |-> Len(d[t])],
             raised |-> FALSE]
    ELSE [system |-> SystemKey(a), hasData |-> FALSE, data |-> NoItems, hasErr |-> TRUE,
          err |-> IF outcome.kind = "agent_error" THEN FailedMsg(a) ELSE UnexpectedMsg(a),
          dur |-> dur, counts |-> ZeroCounts, raised |-> FALSE]

\* timeout_sec = max(0.001, timeout_ms / 1000.0), in ms
DeadlineMs(ms) == Max(1, ms)

\* a pool with a single worker
PoolSizeOne(n) == 1

\* ThreadPoolExecutor(max_workers=max(1, len(agents)))
PoolSize(n) == Max(1, n)

\* ------------------------------------------------------------------- inputs
\* duplicate-free, non-empty agent lists, as Router.select_agents builds them
RECURSIVE SubLists(_)
SubLists(seq) ==
    IF seq = <<>> THEN {<<>>}
    ELSE LET rest == SubLists(Tail(seq))
         IN rest \cup {<<Head(seq)>> \o r : r \in rest}

AgentLists == SubLists(SystemOrder) \ {<<>>}
\* normalized filters: entity_type absent or supported, limit absent (0) or a
\* positive integer
Filters == [entity_type : FilterTypes, limit : {0, MaxLimit}]

Selected == {agents[i] : i \in 1..Len(agents)}
NoOutcome == [kind |-> "none", data |-> NoItems]
IdleTask == [state |-> "new", startAt |-> 0, finishAt |-> 0, outcome |-> NoOutcome]
Running == {s \in Selected : task[s].state = "running"}
Queued == {s \in Selected : task[s].state = "queued"}
Finished == {s \in Selected : task[s].state = "finished"}

\* ------------------------------------------------------------------ actions
Init ==
    /\ agents \in AgentLists
    /\ filter_params \in Filters
    /\ timeout_ms \in 0..MaxTimeout
    /\ pc = "start"
    /\ now = 0
    /\ task = [s \in Selected |-> IdleTask]
    /\ done = {}
    /\ pending = {}
    /\ handled = {}
    /\ aggregated = NoItems
    /\ errors = <<>>
    /\ per_agent_duration_ms = <<>>
    /\ per_agent_result_counts = <<>>
    /\ success_count = 0
    /\ fail_count = 0
    /\ items = <<>>
    /\ deduped = <<>>
    /\ pass = 0
    /\ RouteIdle
    /\ FilterIdle
    /\ LlmIdle

\* pool.submit for every agent: the first max_workers tasks get a worker
\* thread at once, the others stay in the pool's queue
Submit ==
    /\ pc = "start"
    /\ task' = [s \in Selected |->
                  LET i == CHOOSE j \in 1..Len(agents) : agents[j] = s
                  IN [IdleTask EXCEPT
                        !.state = IF i <= PoolSize(Len(agents))
                                  THEN "running" ELSE "queued",
                        !.startAt = now]]
    /\ pc' = "wait"
    /\ UNCHANGED <<agents, filter_params, timeout_ms, now, done, pending, handled,
                   aggregated, errors, per_agent_duration_ms,
                   per_agent_result_counts, success_count, fail_count, dedupVars, restVars>>

\* the first queued task in submission order, run next by a freed worker
NextQueued ==
    LET idx == {i \in 1..Len(agents) : task[agents[i]].state = "queued"}
    IN IF idx = {} THEN {}
       ELSE {agents[CHOOSE i \in idx : \A j \in idx : i <= j]}

\* a worker's _safe_query call ends: query_canonical returned or raised
Finish(s) ==
    /\ s \in Running
    /\ pc \in {"wait", "done_loop", "pending_loop", "shutdown"}
    /\ \E o \in Outcomes(s, filter_params) :
         task' = [x \in Selected |->
                    IF x = s
                    THEN [task[s] EXCEPT
                            !.state = "finished",
                            !.finishAt = now,
                            !.outcome = o]
                    ELSE IF x \in NextQueued
                         THEN [task[x] EXCEPT !.state = "running", !.startAt = now]
                         ELSE task[x]]
    /\ UNCHANGED <<agents, filter_params, timeout_ms, pc, now, done, pending,
                   handled, aggregated, errors, per_agent_duration_ms,
                   per_agent_result_counts, success_count, fail_count, dedupVars, restVars>>

\* one millisecond passes while execute blocks in wait(): some future is not
\* done and the deadline has not expired
Tick ==
    /\ pc = "wait"
    /\ now < DeadlineMs(timeout_ms)
    /\ Finished # Selected
    /\ now' = now + 1
    /\ UNCHANGED <<agents, filter_params, timeout_ms, pc, task, done, pending,
                   handled, aggregated, errors, per_agent_duration_ms,
                   per_agent_result_counts, success_count, fail_count, dedupVars, restVars>>

\* where execute goes next, given the futures its loops have visited
LoopPcSkipPending(d, p, h) ==
    IF d \ h # {} THEN "done_loop" ELSE "shutdown"

LoopPc(d, p, h) ==
    IF d \ h # {} THEN "done_loop"
    ELSE IF p \ h # {} THEN "pending_loop"
    ELSE "shutdown"

\* done, pending = wait(future_map.keys(), timeout=timeout_sec)
WaitReturn ==
    /\ pc = "wait"
    /\ Finished = Selected \/ now >= DeadlineMs(timeout_ms)
    /\ done' = Finished
    /\ pending' = Selected \ Finished
    /\ pc' = LoopPc(Finished, Selected \ Finished, {})
    /\ UNCHANGED <<agents, filter_params, timeout_ms, now, task, handled,
                   aggregated, errors, per_agent_duration_ms,
                   per_agent_result_counts, success_count, fail_count, dedupVars, restVars>>

\* fut.result(): what the worker's _safe_query returned, its duration measured
\* by the worker from its own start to its own end
FutResult(s) ==
    IF task[s].state = "finished"
    THEN SafeQuery(s, task[s].outcome, task[s].finishAt - task[s].startAt)
    ELSE NoResult

\* dict[key] = value
Put(dict, key, value) == (key :> value) @@ dict

\* an extend that skips entities whose key the aggregate already holds
ExtendMerging(agg, list) ==
    agg \o SelectSeq(list, LAMBDA e :
              e.id = "" \/ \A i \in 1..Len(agg) : agg[i].id # e.id)

ExtendFirstOnly(agg, list) == IF agg = <<>> THEN list ELSE agg

\* aggregated[...].extend(data.get(..., []))
Extend(agg, list) == agg \o list

\* the 未知错误 string appended when a finished task carries neither data nor error
UnknownMsg(s) == [kind |-> "unknown", source |-> s, timeout |-> 0]

\* a duration entry that records the wait's floor-adjusted timeout instead
TimeoutDurationFloored(ms) == DeadlineMs(ms)

\* per_agent_duration_ms[system] = float(timeout_ms)
TimeoutDuration(ms) == ms

\* counts taken from whatever the timed-out future holds by now
PendingCountsLate(s) == FutResult(s).counts

\* the all-zero counts recorded for a timed-out source
PendingCounts(s) == ZeroCounts

\* one iteration of `for fut in done` (a set: any order)
ProcessDone(s) ==
    /\ pc = "done_loop"
    /\ s \in done \ handled
    /\ handled' = handled \cup {s}
    /\ LET r == FutResult(s)
       IN IF r.raised
          THEN /\ pc' = "raised"
               /\ UNCHANGED <<aggregated, errors, per_agent_duration_ms,
                              per_agent_result_counts, success_count, fail_count>>
          ELSE /\ pc' = LoopPc(done, pending, handled')
               /\ per_agent_duration_ms' = Put(per_agent_duration_ms, r.system, r.dur)
               /\ per_agent_result_counts' =
                      Put(per_agent_result_counts, r.system, r.counts)
               /\ IF ~r.hasErr /\ r.hasData
                  THEN /\ aggregated' =
                            [t \in EntityTypes |-> Extend(aggregated[t], r.data[t])]
                       /\ success_count' = success_count + 1
                       /\ UNCHANGED <<errors, fail_count>>
                  ELSE /\ errors' = Append(errors,
                                       IF r.hasErr THEN r.err ELSE UnknownMsg(s))
                       /\ fail_count' = fail_count + 1
                       /\ UNCHANGED <<aggregated, success_count>>
    /\ UNCHANGED <<agents, filter_params, timeout_ms, now, task, done, pending,
                   dedupVars, restVars>>

\* one iteration of `for fut in pending`; fut.cancel() stops only a task that
\* no worker has started
ProcessPending(s) ==
    /\ pc = "pending_loop"
    /\ s \in pending \ handled
    /\ handled' = handled \cup {s}
    /\ pc' = LoopPc(done, pending, handled')
    /\ task' = [task EXCEPT ![s].state = IF @ = "queued" THEN "cancelled" ELSE @]
    /\ errors' = Append(errors, TimeoutMsg(s, timeout_ms))
    /\ per_agent_duration_ms' =
           Put(per_agent_duration_ms, SystemKey(s), TimeoutDuration(timeout_ms))
    /\ per_agent_result_counts' =
           Put(per_agent_result_counts, SystemKey(s), PendingCounts(s))
    /\ fail_count' = fail_count + 1
    /\ UNCHANGED <<agents, filter_params, timeout_ms, now, done, pending,
                   aggregated, success_count, dedupVars, restVars>>

\* the with block exits (pool.shutdown(wait=True) joins every worker), then
\* execute returns its result; total_duration_ms is `now`
Return ==
    /\ pc = "shutdown"
    /\ Running = {} /\ Queued = {}
    /\ pc' = "returned"
    /\ UNCHANGED <<agents, filter_params, timeout_ms, now, task, done, pending,
                   handled, aggregated, errors, per_agent_duration_ms,
                   per_agent_result_counts, success_count, fail_count, dedupVars, restVars>>

Next ==
    \/ Submit
    \/ \E s \in Systems : Finish(s)
    \/ Tick
    \/ WaitReturn
    \/ \E s \in Systems : ProcessDone(s)
    \/ \E s \in Systems : ProcessPending(s)
    \/ Return

Spec == Init /\ [][Next]_vars

\* ------------------------------------------- _dedup_list_by_id on its own
\* items with the keys `keys`, each tagged with its position in the list
MkItems(keys) == [i \in 1..Len(keys) |-> [id |-> keys[i], pos |-> i]]

InitDedup ==
    /\ items \in {MkItems(keys) : keys \in SeqsUpTo(DedupKeys, MaxItems)}
    /\ deduped = <<>>
    /\ pass = 0
    /\ agents = <<>>
    /\ filter_params = [entity_type |-> "none", limit |-> 0]
    /\ timeout_ms = 0
    /\ pc = "idle"
    /\ now = 0
    /\ task = <<>>
    /\ done = {}
    /\ pending = {}
    /\ handled = {}
    /\ aggregated = NoItems
    /\ errors = <<>>
    /\ per_agent_duration_ms = <<>>
    /\ per_agent_result_counts = <<>>
    /\ success_count = 0
    /\ fail_count = 0
    /\ RouteIdle
    /\ FilterIdle
    /\ LlmIdle

\* _dedup_list_by_id applied to the list, then to its own result
DedupPass ==
    /\ pass < 2
    /\ deduped' = DedupListById(IF pass = 0 THEN items ELSE deduped)
    /\ pass' = pass + 1
    /\ UNCHANGED <<items, execVars, restVars>>

SpecDedup == InitDedup /\ [][DedupPass]_vars

(***************************************************************************)
(* Router.validate_systems, Router.select_agents and the choice nl_query   *)
(* makes between the caller's systems and the inferred ones.               *)
(***************************************************************************)

\* longest systems list a caller passes
MaxSystems == 3

\* entries of a systems list: supported names, one written in capitals with
\* blanks around it, an unsupported name, the empty string
SystemEntries == {"erp", "hr", "fin", " ERP ", "bogus", ""}

\* str.strip and str.lower on the strings of the requests modelled here
Strip(s) ==
    CASE s = " ERP " -> "ERP"
      [] s = " erp " -> "erp"
      [] s = " Persons" -> "Persons"
      [] s = " persons" -> "persons"
      [] OTHER -> s
Lower(s) ==
    CASE s = " ERP " -> " erp "
      [] s = "ERP" -> "erp"
      [] s = " Persons" -> " persons"
      [] s = "Persons" -> "persons"
      [] OTHER -> s

\* key = (s or "").strip().lower()
EntryKey(s) == Lower(Strip(s))

SupportedAny(key) == TRUE

\* key in SUPPORTED_SYSTEMS
Supported(key) == key \in Systems

\* the two warnings of validate_systems; the first carries the entry as given
UnknownSystemWarning(s) == [kind |-> "unknown_system", value |-> s]
DegradedWarning == [kind |-> "degraded_to_all", value |-> ""]

DefaultNone == <<>>

\* list(SUPPORTED_SYSTEMS.keys())
DefaultSystems == SystemOrder

\* the first loop: normalise each entry, keep the supported, warn on the others
RECURSIVE NormalizeFrom(_, _, _, _)
NormalizeFrom(list, i, acc, warnings) ==
    IF i > Len(list)
    THEN [normalized |-> acc, warnings |-> warnings]
    ELSE IF Supported(EntryKey(list[i]))
         THEN NormalizeFrom(list, i + 1, Append(acc, EntryKey(list[i])), warnings)
         ELSE NormalizeFrom(list, i + 1, acc,
                            Append(warnings, UnknownSystemWarning(list[i])))

RECURSIVE UniqueFromKeepAll(_, _, _, _)
UniqueFromKeepAll(list, i, seen, acc) ==
    IF i > Len(list) THEN acc
    ELSE UniqueFromKeepAll(list, i + 1, seen \cup {list[i]}, Append(acc, list[i]))

\* the second loop: keep the first occurrence of each name, in order
RECURSIVE UniqueFrom(_, _, _, _)
UniqueFrom(list, i, seen, acc) ==
    IF i > Len(list) THEN acc
    ELSE IF list[i] \notin seen
         THEN UniqueFrom(list, i + 1, seen \cup {list[i]}, Append(acc, list[i]))
         ELSE UniqueFrom(list, i + 1, seen, acc)

DegradedSilent(warnings) == warnings

\* warnings.append(degraded-to-all message)
Degraded(warnings) == Append(warnings, DegradedWarning)

\* `not systems`: None or an empty list
Falsy(arg) == arg.none \/ arg.v = <<>>

\* Router.validate_systems: (resolved list, warnings)
ValidateSystems(arg) ==
    IF Falsy(arg)
    THEN [keys |-> DefaultSystems, warnings |-> <<>>]
    ELSE LET n == NormalizeFrom(arg.v, 1, <<>>, <<>>)
             normalized_unique == UniqueFrom(n.normalized, 1, {}, <<>>)
         IN IF normalized_unique = <<>>
            THEN [keys |-> DefaultSystems, warnings |-> Degraded(n.warnings)]
            ELSE [keys |-> normalized_unique, warnings |-> n.warnings]

FinalSystemsInferredFirst(explicit, inferred) ==
    IF Falsy(inferred) THEN explicit ELSE inferred

\* nl_query: final_systems = systems if systems else inferred_sys
FinalSystems(explicit, inferred) ==
    IF Falsy(explicit) THEN inferred ELSE explicit

\* the systems arguments callers pass, the systems an inference returns
SystemsArgs == {NoneArg} \cup {Some(l) : l \in SeqsUpTo(SystemEntries, MaxSystems)}
\* (infer returns what validate_systems resolved: never None, never empty)
InferredArgs == {Some(<<"fin">>), Some(<<"hr", "erp">>), Some(SystemOrder)}

\* the executor's and the dedup's variables while only the router runs
ExecIdle ==
    /\ filter_params = [entity_type |-> "none", limit |-> 0]
    /\ timeout_ms = 0
    /\ now = 0
    /\ task = <<>>
    /\ done = {}
    /\ pending = {}
    /\ handled = {}
    /\ aggregated = NoItems
    /\ errors = <<>>
    /\ per_agent_duration_ms = <<>>
    /\ per_agent_result_counts = <<>>
    /\ success_count = 0
    /\ fail_count = 0
    /\ items = <<>>
    /\ deduped = <<>>
    /\ pass = 0

\* a call of nl_query or of query_across_systems with a systems argument
InitRoute ==
    /\ pc \in {"nl_query", "query_across_systems"}
    /\ systems \in SystemsArgs
    /\ inferred_sys \in (IF pc = "nl_query" THEN InferredArgs ELSE {NoneArg})
    /\ final_systems = NoneArg
    /\ system_keys = <<>>
    /\ sys_warnings = <<>>
    /\ agents = <<>>
    /\ ExecIdle
    /\ FilterIdle
    /\ LlmIdle

routeUnchanged == <<filter_params, timeout_ms, now, task, done, pending, handled,
                    aggregated, errors, per_agent_duration_ms,
                    per_agent_result_counts, success_count, fail_count,
                    dedupVars, filterVars, llmVars>>

\* nl_query chooses the systems and calls query_across_systems with them
NlQuery ==
    /\ pc = "nl_query"
    /\ final_systems' = FinalSystems(systems, inferred_sys)
    /\ pc' = "route"
    /\ UNCHANGED <<systems, inferred_sys, system_keys, sys_warnings, agents,
                   routeUnchanged>>

\* query_across_systems called directly hands its systems argument to route
QueryAcrossSystems ==
    /\ pc = "query_across_systems"
    /\ final_systems' = systems
    /\ pc' = "route"
    /\ UNCHANGED <<systems, inferred_sys, system_keys, sys_warnings, agents,
                   routeUnchanged>>

\* select_agents calls validate_systems
ValidateSystemsCall ==
    /\ pc = "route"
    /\ LET r == ValidateSystems(final_systems)
       IN /\ system_keys' = r.keys
          /\ sys_warnings' = r.warnings
    /\ pc' = "select_agents"
    /\ UNCHANGED <<systems, inferred_sys, final_systems, agents, routeUnchanged>>

\* select_agents instantiates SUPPORTED_SYSTEMS[s]() for each resolved name
SelectAgents ==
    /\ pc = "select_agents"
    /\ agents' = [i \in 1..Len(system_keys) |-> system_keys[i]]
    /\ pc' = "routed"
    /\ UNCHANGED <<routeVars, routeUnchanged>>

NextRoute == NlQuery \/ QueryAcrossSystems \/ ValidateSystemsCall \/ SelectAgents

SpecRoute == InitRoute /\ [][NextRoute]_vars

(***************************************************************************)
(* Router.validate_filter_params                                           *)
(***************************************************************************)

\* a Python value: None, an int, a float (n counts tenths), a str
PyNone == [ty |-> "none", n |-> 0, s |-> ""]
PyInt(k) == [ty |-> "int", n |-> k, s |-> ""]
PyFloat(tenths) == [ty |-> "float", n |-> tenths, s |-> ""]
PyStr(x) == [ty |-> "str", n |-> 0, s |-> x]

\* the integers whose decimal text a request may carry as a string
Literals == -1..(MaxLimit + 1)

\* str(v) for the values an entity_type is given as
Str(v) ==
    CASE v.ty = "str" -> v.s
      [] v.ty = "int" -> ToString(v.n)
      [] v.ty = "none" -> "None"

\* int(v): the integer itself, a float cut towards zero, the integer a
\* decimal string denotes; TypeError on None, ValueError on other strings
IntOf(v) ==
    CASE v.ty = "int" -> [ok |-> TRUE, n |-> v.n]
      [] v.ty = "float" ->
            [ok |-> TRUE, n |-> IF v.n >= 0 THEN v.n \div 10 ELSE -((-v.n) \div 10)]
      [] v.ty = "str" ->
            IF \E k \in Literals : ToString(k) = v.s
            THEN [ok |-> TRUE, n |-> CHOOSE k \in Literals : ToString(k) = v.s]
            ELSE [ok |-> FALSE, n |-> 0]
      [] v.ty = "none" -> [ok |-> FALSE, n |-> 0]

\* dict.pop(key, None)
Pop(dict, key) == [k \in DOMAIN dict \ {key} |-> dict[k]]
\* dict.get(key): None when the key is missing
Get(dict, key) == IF key \in DOMAIN dict THEN dict[key] ELSE PyNone

\* the warnings of validate_filter_params: what they are about and the value
\* they print
FilterWarning(kind, key, value) == [kind |-> kind, key |-> key, value |-> value]

SupportedTypeAny(et_str) == TRUE

\* et_str in SUPPORTED_ENTITY_TYPES
SupportedType(et_str) == et_str \in EntityTypes

\* the entity_type block: r is [d |-> the dict, w |-> the warnings]
EntityTypeStep(r) ==
    LET et == Get(r.d, "entity_type")
        et_str == Lower(Strip(Str(et)))
    IN IF et = PyNone THEN r
       ELSE IF SupportedType(et_str)
            THEN [r EXCEPT !.d = Put(r.d, "entity_type", PyStr(et_str))]
            ELSE [d |-> Pop(r.d, "entity_type"),
                  w |-> Append(r.w, FilterWarning("entity_type", "entity_type", et))]

LimitOkAny(c) == c.ok

\* int(lim) did not raise and lim_int > 0
LimitOk(c) == c.ok /\ c.n > 0

\* the limit block
LimitStep(r) ==
    IF "limit" \notin DOMAIN r.d THEN r
    ELSE LET lim == r.d["limit"]
             c == IntOf(lim)
         IN IF LimitOk(c)
            THEN [r EXCEPT !.d = Put(r.d, "limit", PyInt(c.n))]
            ELSE [d |-> Pop(r.d, "limit"),
                  w |-> Append(r.w, FilterWarning("limit", "limit", lim))]

\* key in normalized and normalized[key] is not None and not a str
OddDate(d, key) == key \in DOMAIN d /\ d[key] # PyNone /\ d[key].ty # "str"

DateStepDropping(r) ==
    LET r1 == IF OddDate(r.d, "date_from") THEN [r EXCEPT !.d = Pop(r.d, "date_from")] ELSE r
    IN IF OddDate(r1.d, "date_to") THEN [r1 EXCEPT !.d = Pop(r1.d, "date_to")] ELSE r1

\* the date block: a warning for a bound that is not a string, nothing else
DateStep(r) ==
    LET w1 == IF OddDate(r.d, "date_from")
              THEN Append(r.w, FilterWarning("date_type", "date_from", r.d["date_from"]))
              ELSE r.w
        w2 == IF OddDate(r.d, "date_to")
              THEN Append(w1, FilterWarning("date_type", "date_to", r.d["date_to"]))
              ELSE w1
    IN [r EXCEPT !.w = w2]

\* the dicts callers pass: each key missing or holding one of its values
EntityTypeValues == {PyNone, PyStr("persons"), PyStr(" Persons"), PyStr("bogus"), PyInt(1)}
LimitValues ==
    {PyNone, PyStr("abc"), PyFloat(5), PyFloat(15)}
        \cup {PyInt(k) : k \in -1..MaxLimit}
        \cup {PyStr(ToString(k)) : k \in 0..MaxLimit}
DateValues == {PyNone, PyStr("2024-01-01T00:00:00Z"), PyInt(20240101)}
DateRangeValues == {PyNone, PyStr("2024")}
Opt(key, values) == {<<>>} \cup {key :> v : v \in values}
FilterDicts ==
    {a @@ b @@ c @@ d @@ e :
        a \in Opt("entity_type", EntityTypeValues),
        b \in Opt("limit", LimitValues),
        c \in Opt("date_from", DateValues),
        d \in Opt("date_to", DateValues \ {PyNone}),
        e \in Opt("dateRange", DateRangeValues)}
FilterArgs == {NoneArg} \cup {Some(d) : d \in FilterDicts}

\* a call of validate_filter_params
InitFilter ==
    /\ pc = "validate_filter_params"
    /\ raw_filter_params \in FilterArgs
    /\ normalized = <<>>
    /\ fp_warnings = <<>>
    /\ agents = <<>>
    /\ ExecIdle
    /\ RouteIdle
    /\ LlmIdle

filterUnchanged == <<agents, filter_params, timeout_ms, now, task, done, pending,
                     handled, aggregated, errors, per_agent_duration_ms,
                     per_agent_result_counts, success_count, fail_count,
                     dedupVars, routeVars, llmVars, raw_filter_params>>

\* normalized = dict(filter_params or {})
CopyFilterParams ==
    /\ pc = "validate_filter_params"
    /\ normalized' = IF Falsy(raw_filter_params) THEN <<>> ELSE raw_filter_params.v
    /\ pc' = "entity_type"
    /\ UNCHANGED <<fp_warnings, filterUnchanged>>

\* the entity_type block runs
CheckEntityType ==
    /\ pc = "entity_type"
    /\ LET r == EntityTypeStep([d |-> normalized, w |-> fp_warnings])
       IN /\ normalized' = r.d
          /\ fp_warnings' = r.w
    /\ pc' = "limit"
    /\ UNCHANGED filterUnchanged

\* the limit block runs
CheckLimit ==
    /\ pc = "limit"
    /\ LET r == LimitStep([d |-> normalized, w |-> fp_warnings])
       IN /\ normalized' = r.d
          /\ fp_warnings' = r.w
    /\ pc' = "dates"
    /\ UNCHANGED filterUnchanged

\* the date block runs and the method returns
CheckDates ==
    /\ pc = "dates"
    /\ LET r == DateStep([d |-> normalized, w |-> fp_warnings])
       IN /\ normalized' = r.d
          /\ fp_warnings' = r.w
    /\ pc' = "validated"
    /\ UNCHANGED filterUnchanged

NextFilter == CopyFilterParams \/ CheckEntityType \/ CheckLimit \/ CheckDates

SpecFilter == InitFilter /\ [][NextFilter]_vars

\* Router.validate_filter_params as one call: (the dict returned, warnings)
ValidateFilterParams(arg) ==
    DateStep(LimitStep(EntityTypeStep(
        [d |-> IF Falsy(arg) THEN <<>> ELSE arg.v, w |-> <<>>])))

(***************************************************************************)
(* LLMProxy._fallback_parse, LLMProxy.infer and what nl_query does with    *)
(* the inference.                                                          *)
(***************************************************************************)

PyBool(b) == [ty |-> "bool", n |-> IF b THEN 1 ELSE 0, s |-> ""]

\* bool(v)
Truthy(v) ==
    CASE v.ty = "none" -> FALSE
      [] v.ty = "str" -> v.s # ""
      [] OTHER -> v.n # 0

\* isinstance(v, int): a bool is an int
IsInt(v) == v.ty \in {"int", "bool"}

\* dict.setdefault(key, value)
SetDefault(dict, key, value) == IF key \in DOMAIN dict THEN dict ELSE Put(dict, key, value)

\* the limit the keyword families default to
DefaultLimit == 50

FamilyOrderErpFirst == <<"erp", "hr", "fin">>

\* the keyword families in the order of the if / elif chain, and the entity
\* type each stands for
FamilyOrder == <<"fin", "hr", "erp">>
FamilyType(fam) ==
    CASE fam = "fin" -> "transactions"
      [] fam = "hr" -> "persons"
      [] fam = "erp" -> "customers"

FixedOrderReversed ==
    <<"last_one_quarter", "last_half_year", "day_before_yesterday", "yesterday",
      "today", "last_quarter", "this_quarter", "year_before_last", "last_year",
      "this_year", "last_month", "this_month", "last_week", "this_week">>

\* the fixed-period phrases in the order of the if / elif chain
FixedOrder == <<"this_week", "last_week", "this_month", "last_month", "this_year",
                "last_year", "year_before_last", "this_quarter", "last_quarter",
                "today", "yesterday", "day_before_yesterday", "last_half_year",
                "last_one_quarter">>

\* the first element of an if / elif chain whose test succeeds
FirstOf(order, matched) ==
    order[CHOOSE i \in 1..Len(order) :
            /\ order[i] \in matched
            /\ \A j \in 1..(i - 1) : order[j] \notin matched]

\* datetime.isoformat() of a bound computed for a phrase, or given by a
\* caller or a model: the string names where the bound comes from
Iso(origin, bound) == PyStr(origin \o "." \o bound)

\* the entries of infer's warnings list: what the message is and what it names
LlmWarning(kind, about) == [kind |-> kind, about |-> about]
FallbackNotice == LlmWarning("fallback_notice", "")
\* the router's warnings as entries of that list
RouterWarnings(ws) == [i \in 1..Len(ws) |-> LlmWarning(ws[i].kind, "")]

FillRangeOverwriting(r, origin, kind, about) ==
    [d |-> Put(Put(r.d, "date_from", Iso(origin, "from")), "date_to", Iso(origin, "to")),
     w |-> Append(r.w, LlmWarning(kind, about))]

\* set_range and the relative block: each bound is set when its key is not
\* in fp, and one warning is appended
FillRange(r, origin, kind, about) ==
    [d |-> SetDefault(SetDefault(r.d, "date_from", Iso(origin, "from")),
                      "date_to", Iso(origin, "to")),
     w |-> Append(r.w, LlmWarning(kind, about))]

\* the range of the relative block: now minus num units, up to now
RelativeOrigin(num, unit) == "last_" \o ToString(num) \o "_" \o unit

\* LLMProxy._fallback_parse: (fp, s, warnings)
FallbackParse(t, defaults) ==
    LET fp0 == IF Falsy(defaults) THEN <<>> ELSE defaults.v
        fam == IF t.kw = {} THEN "none" ELSE FirstOf(FamilyOrder, t.kw)
        fp1 == IF fam = "none" THEN fp0
               ELSE SetDefault(SetDefault(fp0, "entity_type", PyStr(FamilyType(fam))),
                               "limit", PyInt(DefaultLimit))
        r0 == [d |-> fp1, w |-> <<FallbackNotice>>]
        r1 == IF t.fixed = {} THEN r0
              ELSE LET label == FirstOf(FixedOrder, t.fixed)
                   IN FillRange(r0, label, "fixed_phrase", label)
        r2 == IF t.rel > 0
              THEN FillRange(r1, RelativeOrigin(t.rel, t.unit), "relative_phrase",
                             ToString(t.rel) \o t.unit)
              ELSE r1
    IN [fp |-> r2.d,
        s |-> IF fam = "none" THEN NoneArg ELSE Some(<<fam>>),
        w |-> r2.w]

\* ---- the requests and the model replies ----
\* texts: which keyword families, which fixed phrases and which "last N"
\* phrase (0: none, or a count of zero, which `if num and unit` skips) the
\* recognizers find
Texts ==
    {[kw |-> k, fixed |-> f, rel |-> r, unit |-> IF r = 0 THEN "" ELSE "months"] :
        k \in {{}, {"fin"}}, f \in {{}, {"this_week"}}, r \in {0, 3}}

DefaultFilterArgs ==
    {NoneArg} \cup
    {Some(a @@ b @@ c) :
        a \in Opt("entity_type", {PyStr("bogus")}),
        b \in Opt("date_from", {PyNone, Iso("default", "from")}),
        c \in Opt("date_to", {Iso("default", "to")})}

\* a key of the reply: missing, or a value of some JSON shape
AbsentField == [shape |-> "absent", v |-> <<>>]
Field(shape, v) == [shape |-> shape, v |-> v]
Reply(fp, sys, timeout) == [filter_params |-> fp, systems |-> sys, timeout_ms |-> timeout]

ReplyFilters ==
    {a @@ b @@ c :
        a \in Opt("date_from", {Iso("llm", "from")}),
        b \in Opt("date_to", {Iso("llm", "to")}),
        c \in Opt("entity_type", {PyStr("customers")})}
    \cup {("entity_type" :> PyStr("bogus")) @@ ("limit" :> PyInt(-1))}

TimeoutValues == {PyInt(10), PyInt(200), PyInt(70000), PyFloat(2005), PyBool(TRUE)}

\* what _call_llm returns as parsed: None, or a JSON object: well formed, the
\* empty object, or one whose filter_params is a string or whose systems is
\* a number
Replies ==
    {NoneArg}
    \cup {Some(Reply(Field("dict", d), AbsentField, NoneArg)) : d \in ReplyFilters}
    \cup {Some(Reply(AbsentField, AbsentField, NoneArg))}
    \cup {Some(Reply(Field("dict", <<>>), Field("list", <<"hr">>), Some(t))) :
            t \in TimeoutValues}
    \cup {Some(Reply(Field("str", <<>>), AbsentField, NoneArg)),
          Some(Reply(Field("dict", <<>>), Field("int", <<>>), NoneArg))}

Switches == [enable_time_enhancements : BOOLEAN, enable_narrow_time_llm : BOOLEAN]

\* the default of nl_query's timeout_ms, and the timeouts callers pass
DefaultTimeoutMs == 5000
CallerTimeouts == {1000, DefaultTimeoutMs}

\* a call of nl_query: the text, the caller's arguments, the switches, and
\* what the model will answer to the main prompt
InitInfer ==
    /\ pc = "infer"
    /\ text \in Texts
    /\ default_filters \in DefaultFilterArgs
    /\ nl_timeout_ms \in CallerTimeouts
    /\ settings \in Switches
    /\ parsed \in Replies
    /\ normalized_fp = <<>>
    /\ normalized_sys = <<>>
    /\ llm_warnings = <<>>
    /\ llm_metrics = NoMetrics
    /\ inferred_timeout = NoneArg
    /\ narrow = "not_called"
    /\ fp_before_narrow = <<>>
    /\ phrase = NoPhrase
    /\ agents = <<>>
    /\ ExecIdle
    /\ RouteIdle
    /\ FilterIdle

inferUnchanged == <<agents, filter_params, now, task, done, pending, handled,
                    aggregated, errors, per_agent_duration_ms,
                    per_agent_result_counts, success_count, fail_count,
                    dedupVars, filterVars, systems, system_keys, sys_warnings,
                    text, default_filters, nl_timeout_ms, settings, parsed,
                    phrase>>

\* `not parsed`: None, or an object without a key
NotParsed(p) ==
    \/ p.none
    \/ /\ p.v.filter_params.shape = "absent"
       /\ p.v.systems.shape = "absent"
       /\ p.v.timeout_ms.none

\* llm_status = "ok" if parsed is not None else "degraded"
LlmStatus(p) == IF p.none THEN "degraded" ELSE "ok"

\* _call_llm has returned: llm_used and llm_status are set, the path is chosen
CallLlm ==
    /\ pc = "infer"
    /\ llm_metrics' = [llm_metrics EXCEPT
                          !.llm_used = ~parsed.none,
                          !.llm_status = LlmStatus(parsed)]
    /\ pc' = IF NotParsed(parsed) THEN "degraded_path" ELSE "main_path"
    /\ UNCHANGED <<normalized_fp, normalized_sys, llm_warnings, inferred_timeout,
                   narrow, fp_before_narrow, inferred_sys, final_systems,
                   timeout_ms, inferUnchanged>>

\* _fallback_parse, then the router's two validations: (fp, systems, warnings)
FallbackValidated(t, defaults) ==
    LET fb == FallbackParse(t, defaults)
        v == ValidateFilterParams(Some(fb.fp))
        vs == ValidateSystems(fb.s)
    IN [fp |-> v.d, sys |-> vs.keys,
        w |-> fb.w \o RouterWarnings(v.w) \o RouterWarnings(vs.warnings)]

\* the branch taken when nothing was parsed, up to the narrow stage
DegradedPath ==
    /\ pc = "degraded_path"
    /\ LET r == FallbackValidated(text, default_filters)
       IN /\ normalized_fp' = r.fp
          /\ normalized_sys' = r.sys
          /\ llm_warnings' = llm_warnings \o r.w
    /\ pc' = "narrow"
    /\ UNCHANGED <<llm_metrics, inferred_timeout, narrow, fp_before_narrow,
                   inferred_sys, final_systems, timeout_ms, inferUnchanged>>

\* dict(filter_params) on a string and `for s in systems` on a number raise
ReplyRaises(obj) == obj.filter_params.shape = "str" \/ obj.systems.shape = "int"

FillKeyOverwriting(r, fb_fp, key, kind) ==
    IF Truthy(Get(fb_fp, key))
    THEN [d |-> Put(r.d, key, fb_fp[key]),
          w |-> IF kind = "" THEN r.w ELSE Append(r.w, LlmWarning(kind, key))]
    ELSE r

\* `key not in normalized_fp and fp_fb.get(key)`: r is [d, w]; fills the key
\* and, when a kind is given, appends a warning
FillKey(r, fb_fp, key, kind) ==
    IF key \notin DOMAIN r.d /\ Truthy(Get(fb_fp, key))
    THEN [d |-> Put(r.d, key, fb_fp[key]),
          w |-> IF kind = "" THEN r.w ELSE Append(r.w, LlmWarning(kind, key))]
    ELSE r

\* fallback_has_time
FallbackHasTime(fb_fp) ==
    Truthy(Get(fb_fp, "date_from")) /\ Truthy(Get(fb_fp, "date_to"))

\* the merge of the fallback's result into the validated reply: dates,
\* entity type, systems, warnings; r is [d, w, sys, override]
MergeFallback(r, fb, cfg) ==
    LET dated ==
            IF FallbackHasTime(fb.fp)
            THEN IF cfg.enable_time_enhancements
                 THEN [r EXCEPT
                         !.d = Put(Put(r.d, "date_from", fb.fp["date_from"]),
                                   "date_to", fb.fp["date_to"]),
                         !.override = TRUE,
                         !.w = Append(r.w, LlmWarning("anchor_override", ""))]
                 ELSE LET f1 == FillKey([d |-> r.d, w |-> r.w], fb.fp,
                                        "date_from", "anchor_fill")
                          f2 == FillKey(f1, fb.fp, "date_to", "anchor_fill")
                      IN [r EXCEPT !.d = f2.d, !.w = f2.w]
            ELSE LET f1 == FillKey([d |-> r.d, w |-> r.w], fb.fp, "date_from", "")
                     f2 == FillKey(f1, fb.fp, "date_to", "")
                 IN [r EXCEPT !.d = f2.d]
        typed == FillKey([d |-> dated.d, w |-> dated.w], fb.fp, "entity_type", "")
    IN [dated EXCEPT
          !.d = typed.d,
          !.sys = IF dated.sys = <<>> /\ ~Falsy(fb.s) THEN fb.s.v ELSE dated.sys,
          !.w = dated.w \o fb.w]

OnExceptionEscapes == "raised"

\* where an exception raised in the main path's try block lands: its except
\* clause
OnException == "except"

\* the main path up to the narrow stage: the reply is validated and the
\* fallback's findings are merged in; a reply the router cannot read raises
MainPath ==
    /\ pc = "main_path"
    /\ LET obj == parsed.v
       IN IF ReplyRaises(obj)
          THEN /\ pc' = OnException
               /\ UNCHANGED <<normalized_fp, normalized_sys, llm_warnings,
                              llm_metrics, inferred_timeout>>
          ELSE LET v == ValidateFilterParams(Some(obj.filter_params.v))
                   vs == ValidateSystems(IF obj.systems.shape = "absent"
                                         THEN NoneArg ELSE Some(obj.systems.v))
                   m == MergeFallback(
                            [d |-> v.d, sys |-> vs.keys, override |-> FALSE,
                             w |-> llm_warnings \o RouterWarnings(v.w)
                                      \o RouterWarnings(vs.warnings)],
                            FallbackParse(text, default_filters), settings)
               IN /\ normalized_fp' = m.d
                  /\ normalized_sys' = m.sys
                  /\ llm_warnings' = m.w
                  /\ llm_metrics' =
                        [llm_metrics EXCEPT !.time_anchor_override_used = m.override]
                  /\ inferred_timeout' =
                        IF ~obj.timeout_ms.none /\ IsInt(obj.timeout_ms.v)
                        THEN obj.timeout_ms ELSE NoneArg
                  /\ pc' = "narrow"
    /\ UNCHANGED <<narrow, fp_before_narrow, inferred_sys, final_systems,
                   timeout_ms, inferUnchanged>>

\* the except clause of the main path: fallback, validation, status degraded
ExceptPath ==
    /\ pc = "except"
    /\ LET r == FallbackValidated(text, default_filters)
       IN /\ normalized_fp' = r.fp
          /\ normalized_sys' = r.sys
          /\ llm_warnings' = llm_warnings \o r.w
    /\ llm_metrics' = [llm_metrics EXCEPT !.llm_status = "degraded"]
    /\ pc' = "infer_return"
    /\ UNCHANGED <<inferred_timeout, narrow, fp_before_narrow, inferred_sys,
                   final_systems, timeout_ms, inferUnchanged>>

NarrowWantedAlways(cfg, fp) == TRUE

\* both switches on and a bound missing
NarrowWanted(cfg, fp) ==
    /\ cfg.enable_time_enhancements /\ cfg.enable_narrow_time_llm
    /\ ~Truthy(Get(fp, "date_from")) \/ ~Truthy(Get(fp, "date_to"))

\* normalized_fp["date_from"] = picked["date_from"], and date_to likewise
NarrowMerge(fp) ==
    Put(Put(fp, "date_from", Iso("narrow", "from")), "date_to", Iso("narrow", "to"))

\* the narrow stage of either path: _extract_time_narrow is called when
\* wanted and returns None or both bounds
NarrowStage ==
    /\ pc = "narrow"
    /\ fp_before_narrow' = normalized_fp
    /\ IF NarrowWanted(settings, normalized_fp)
       THEN \E picked \in {"none", "both"} :
              /\ narrow' = picked
              /\ IF picked = "both"
                 THEN /\ normalized_fp' = NarrowMerge(normalized_fp)
                      /\ llm_metrics' = [llm_metrics EXCEPT !.time_narrow_used = TRUE]
                      /\ llm_warnings' =
                            Append(llm_warnings, LlmWarning("narrow_used", ""))
                 ELSE UNCHANGED <<normalized_fp, llm_metrics, llm_warnings>>
       ELSE UNCHANGED <<narrow, normalized_fp, llm_metrics, llm_warnings>>
    /\ pc' = "infer_return"
    /\ UNCHANGED <<normalized_sys, inferred_timeout, inferred_sys, final_systems,
                   timeout_ms, inferUnchanged>>

\* the range an inferred timeout is cut to
TimeoutFloor == 50
TimeoutCeiling == 60000

FinalTimeoutUnclamped(own, inferred) ==
    IF ~inferred.none /\ IsInt(inferred.v) THEN inferred.v.n ELSE own

\* nl_query: final_timeout
FinalTimeout(own, inferred) ==
    IF ~inferred.none /\ IsInt(inferred.v)
    THEN Max(TimeoutFloor, Min(TimeoutCeiling, inferred.v.n))
    ELSE own

\* nl_query takes the inference and calls query_across_systems
NlQueryBridge ==
    /\ pc = "infer_return"
    /\ inferred_sys' = Some(normalized_sys)
    /\ final_systems' = FinalSystems(systems, Some(normalized_sys))
    /\ timeout_ms' = FinalTimeout(nl_timeout_ms, inferred_timeout)
    /\ pc' = "bridged"
    /\ UNCHANGED <<normalized_fp, normalized_sys, llm_warnings, llm_metrics,
                   inferred_timeout, narrow, fp_before_narrow, inferUnchanged>>

NextInfer ==
    \/ CallLlm \/ DegradedPath \/ MainPath \/ ExceptPath \/ NarrowStage
    \/ NlQueryBridge

SpecInfer == InitInfer /\ [][NextInfer]_vars

\* ---- _fallback_parse on its own ----
\* texts for the recognizers alone: several families, several fixed phrases
FallbackTexts ==
    {[kw |-> k, fixed |-> f, rel |-> r, unit |-> IF r = 0 THEN "" ELSE "months"] :
        k \in SUBSET {"fin", "hr", "erp"},
        f \in {{}, {"this_week"}, {"last_month", "today"}, {"last_one_quarter"}},
        r \in {0, 3}}

\* the default_filters of those calls: each key missing, null as
\* FilterParams.model_dump() gives it, or set
FallbackDefaultArgs ==
    {NoneArg} \cup
    {Some(a @@ b @@ c @@ d) :
        a \in Opt("entity_type", {PyNone, PyStr("bogus")}),
        b \in Opt("limit", {PyInt(7)}),
        c \in Opt("date_from", {PyNone, Iso("default", "from")}),
        d \in Opt("date_to", {PyNone, Iso("default", "to")})}

\* a call of _fallback_parse
InitFallback ==
    /\ pc = "fallback_parse"
    /\ text \in FallbackTexts
    /\ default_filters \in FallbackDefaultArgs
    /\ nl_timeout_ms = 0
    /\ settings = SwitchesOff
    /\ parsed = NoneArg
    /\ normalized_fp = <<>>
    /\ normalized_sys = <<>>
    /\ llm_warnings = <<>>
    /\ llm_metrics = NoMetrics
    /\ inferred_timeout = NoneArg
    /\ narrow = "not_called"
    /\ fp_before_narrow = <<>>
    /\ phrase = NoPhrase
    /\ agents = <<>>
    /\ ExecIdle
    /\ RouteIdle
    /\ FilterIdle

\* _fallback_parse returns (fp, s, warnings): kept in normalized_fp,
\* inferred_sys and llm_warnings
FallbackParseCall ==
    /\ pc = "fallback_parse"
    /\ LET fb == FallbackParse(text, default_filters)
       IN /\ normalized_fp' = fb.fp
          /\ inferred_sys' = fb.s
          /\ llm_warnings' = fb.w
    /\ pc' = "fallback_parsed"
    /\ UNCHANGED <<normalized_sys, llm_metrics, inferred_timeout, narrow,
                   fp_before_narrow, final_systems, timeout_ms, inferUnchanged>>

SpecFallback == InitFallback /\ [][FallbackParseCall]_vars

\* ---- the "last N <unit>" recognizer of _fallback_parse ----
\* the numeral characters of the first pattern, by their pinyin, and the
\* value chinese_to_int's mapping gives each
ChineseDigits == <<"yi", "er", "san", "si", "wu", "liu", "qi", "ba", "jiu">>
DigitValue(tok) ==
    CASE tok = "ling" -> 0
      [] tok = "liang" -> 2
      [] tok = "shi" -> 10
      [] tok = "bai" -> 100
      [] OTHER -> CHOOSE i \in 1..Len(ChineseDigits) : ChineseDigits[i] = tok

RECURSIVE SumDigits(_, _)
SumDigits(tokens, i) ==
    IF i > Len(tokens) THEN 0 ELSE DigitValue(tokens[i]) + SumDigits(tokens, i + 1)

\* chinese_to_int on a numeral written in characters
ChineseToInt(tokens) ==
    IF tokens[1] = "shi" /\ Len(tokens) > 1 THEN 10 + DigitValue(tokens[2])
    ELSE IF tokens[Len(tokens)] = "shi" /\ Len(tokens) > 1
         THEN DigitValue(tokens[1]) * 10
    ELSE IF Len(tokens) = 1 THEN DigitValue(tokens[1])
    ELSE Max(1, SumDigits(tokens, 1))

\* the unit words and the relativedelta argument each selects
UnitWords == {"nian", "yue", "tian", "ri", "zhou", "xingqi"}
DeltaUnit(word) ==
    CASE word = "nian" -> "years"
      [] word = "yue" -> "months"
      [] word \in {"tian", "ri"} -> "days"
      [] word \in {"zhou", "xingqi"} -> "weeks"

\* the two patterns: the first takes digits or characters directly followed
\* by the unit; the second, tried when the first gave no count, takes digits
\* only, with an optional measure word
RelativeMatch(ph) ==
    LET first == IF ph.measure THEN [num |-> 0, unit |-> ""]
                 ELSE [num |-> IF ph.digits THEN ph.n ELSE ChineseToInt(ph.tokens),
                       unit |-> ph.word]
    IN IF (first.num = 0 \/ first.unit = "") /\ ph.digits
       THEN [num |-> ph.n, unit |-> ph.word]
       ELSE first

\* the text as the recognizers see it: `if num and unit`
TextOf(ph) ==
    LET m == RelativeMatch(ph)
    IN IF m.num > 0 /\ m.unit # ""
       THEN [kw |-> {}, fixed |-> {}, rel |-> m.num, unit |-> DeltaUnit(m.unit)]
       ELSE PlainText

\* the largest tens digit written
MaxTens == 6

\* numerals in characters: zero, one to nine, the other two, ten, ten-Y,
\* X-ten and X-ten-Y
ChineseNumerals ==
    {<<"ling">>, <<"liang">>, <<"shi">>}
    \cup {<<ChineseDigits[y]>> : y \in 1..9}
    \cup {<<"shi", ChineseDigits[y]>> : y \in 1..9}
    \cup {<<ChineseDigits[x], "shi">> : x \in 2..MaxTens}
    \cup {<<ChineseDigits[x], "shi", ChineseDigits[y]>> : x \in 2..MaxTens, y \in 1..9}

\* "last N <unit>" phrases as written: N in digits or in characters, with or
\* without the measure word, each unit word
Phrases ==
    {[digits |-> TRUE, n |-> k, tokens |-> <<>>, measure |-> m, word |-> w] :
        k \in 0..(10 * MaxTens + 9), m \in BOOLEAN, w \in UnitWords}
    \cup {[digits |-> FALSE, n |-> 0, tokens |-> c, measure |-> m, word |-> w] :
        c \in ChineseNumerals, m \in BOOLEAN, w \in UnitWords}

\* a call of _fallback_parse on a text whose only phrase is a "last N" one,
\* default_filters holding no dates
InitRelative ==
    /\ pc = "fallback_parse_written"
    /\ phrase \in Phrases
    /\ text = PlainText
    /\ default_filters \in {NoneArg, Some("limit" :> PyInt(7))}
    /\ nl_timeout_ms = 0
    /\ settings = SwitchesOff
    /\ parsed = NoneArg
    /\ normalized_fp = <<>>
    /\ normalized_sys = <<>>
    /\ llm_warnings = <<>>
    /\ llm_metrics = NoMetrics
    /\ inferred_timeout = NoneArg
    /\ narrow = "not_called"
    /\ fp_before_narrow = <<>>
    /\ agents = <<>>
    /\ ExecIdle
    /\ RouteIdle
    /\ FilterIdle

\* _fallback_parse from the written phrase: the patterns are applied, then
\* the range is filled in
FallbackParseWritten ==
    /\ pc = "fallback_parse_written"
    /\ LET fb == FallbackParse(TextOf(phrase), default_filters)
       IN /\ text' = TextOf(phrase)
          /\ normalized_fp' = fb.fp
          /\ inferred_sys' = fb.s
          /\ llm_warnings' = fb.w
    /\ pc' = "fallback_parsed"
    /\ UNCHANGED <<normalized_sys, llm_metrics, inferred_timeout, narrow,
                   fp_before_narrow, final_systems, timeout_ms, agents,
                   filter_params, now, task, done, pending, handled, aggregated,
                   errors, per_agent_duration_ms, per_agent_result_counts,
                   success_count, fail_count, dedupVars, filterVars, systems,
                   system_keys, sys_warnings, default_filters, nl_timeout_ms,
                   settings, parsed, phrase>>

SpecRelative == InitRelative /\ [][FallbackParseWritten]_vars

\* ------------------------------------------------------------ vocabulary
Range(seq) == {seq[i] : i \in 1..Len(seq)}
\* the three ways a selected source's task can end for execute
Succeeded == {s \in done : task[s].outcome.kind = "ok"}
Raised == {s \in done : task[s].outcome.kind \in {"agent_error", "exception"}}
TimedOut == pending
ErrorsOf(s) == {i \in 1..Len(errors) : errors[i].source = s}
EntitiesOf(s, t) == {i \in 1..Len(aggregated[t]) : aggregated[t][i].sys = s}
\* what a source's query_canonical returned for t, without later duplicates
\* of a key: positions kept are the keyless ones and the first of each key
KeptPositions(list) ==
    {i \in 1..Len(list) :
        list[i].id = "" \/ \A j \in 1..(i - 1) : list[j].id # list[i].id}

\* ----------------------------------------------------------------- claims
\* C1: after execute returns, per_agent_duration_ms and
\* per_agent_result_counts each hold exactly one entry per selected source and
\* no other entry, whether the source succeeded, raised or timed out.
C1_OneEntryPerSource ==
    pc = "returned" =>
        /\ DOMAIN per_agent_duration_ms = Selected
        /\ DOMAIN per_agent_result_counts = Selected

C1_Witness ==
    /\ pc = "returned"
    /\ Succeeded # {} /\ Raised # {} /\ TimedOut # {}

\* C2: execute never raises because of a source; the result it returns holds
\* the four collections, and when every selected source raised or timed out
\* the four collections are empty and errors is not.
C2_NeverRaisesFourCollections ==
    /\ pc # "raised"
    /\ pc = "returned" =>
        /\ DOMAIN aggregated = EntityTypes
        /\ Succeeded = {} =>
              /\ \A t \in EntityTypes : aggregated[t] = <<>>
              /\ errors # <<>>

C2_Witness ==
    /\ pc = "returned"
    /\ Succeeded = {} /\ Raised # {} /\ TimedOut # {}
    /\ \E s \in Raised : task[s].outcome.kind = "exception"

\* C3: when some sources raise and the others succeed before the deadline, the
\* batch goes on: one error string per failed source, success_count and
\* fail_count count the succeeded and the failed sources, a failed source has
\* four zero counts and nothing in the aggregate, and every entity a succeeded
\* source returned, less its duplicates, is in the aggregate.
C3_PartialFailure ==
    (pc = "returned" /\ TimedOut = {}) =>
        /\ Len(errors) = Cardinality(Raised)
        /\ \A s \in Raised :
              /\ Cardinality(ErrorsOf(s)) = 1
              /\ per_agent_result_counts[s] = ZeroCounts
              /\ \A t \in EntityTypes : EntitiesOf(s, t) = {}
        /\ success_count = Cardinality(Succeeded)
        /\ fail_count = Cardinality(Raised)
        /\ \A s \in Succeeded : \A t \in EntityTypes :
              LET got == task[s].outcome.data[t]
              IN \A i \in KeptPositions(got) : got[i] \in Range(aggregated[t])

C3_Witness ==
    /\ pc = "returned" /\ TimedOut = {}
    /\ Raised # {}
    /\ \E s \in Succeeded : \E t \in EntityTypes : EntitiesOf(s, t) # {}

\* C4 as claimed: per_agent_duration_ms[s] equals timeout_ms exactly when s
\* timed out, and then errors holds a timeout string naming s and timeout_ms.
C4_DurationIffTimedOut ==
    pc = "returned" =>
        \A s \in Selected :
            /\ per_agent_duration_ms[s] = timeout_ms <=> s \in TimedOut
            /\ s \in TimedOut =>
                  \E i \in ErrorsOf(s) :
                      errors[i].kind = "timeout" /\ errors[i].timeout = timeout_ms

\* C4 as amended: a source that timed out has per_agent_duration_ms[s] equal to
\* timeout_ms and a timeout string in errors that names it and timeout_ms; a
\* source that did not time out has the duration its worker measured, which
\* may equal timeout_ms as well.
C4_TimedOutRecordsTimeout ==
    pc = "returned" =>
        /\ \A s \in TimedOut :
              /\ per_agent_duration_ms[s] = timeout_ms
              /\ \E i \in ErrorsOf(s) :
                    errors[i].kind = "timeout" /\ errors[i].timeout = timeout_ms
        /\ \A s \in done :
              per_agent_duration_ms[s] = task[s].finishAt - task[s].startAt

C4_Witness ==
    /\ pc = "returned"
    /\ TimedOut # {}
    /\ \E s \in done : per_agent_duration_ms[s] = timeout_ms

\* C5: a source whose task was pending when the deadline expired contributes
\* no entity and no non-zero count, also when its call has completed
\* successfully since; it is reported as one timeout failure and nothing else.
C5_LateResultDiscarded ==
    pc \in {"shutdown", "returned"} =>
        \A s \in TimedOut :
            /\ \A t \in EntityTypes : EntitiesOf(s, t) = {}
            /\ per_agent_result_counts[s] = ZeroCounts
            /\ Cardinality(ErrorsOf(s)) = 1
            /\ \A i \in ErrorsOf(s) : errors[i].kind = "timeout"

C5_Witness ==
    /\ pc = "returned"
    /\ \E s \in TimedOut :
          /\ task[s].state = "finished"
          /\ task[s].outcome.kind = "ok"
          /\ \E t \in EntityTypes : task[s].outcome.data[t] # <<>>

\* C6: execute blocks in wait() only: once its two loops are over it returns
\* without waiting for the source calls that are still running.
C6_ReturnsWithoutWaiting ==
    pc = "shutdown" => ENABLED Return

\* C7: every selected source's task runs on a worker of its own from the
\* moment it is submitted, so a source is reported as timed out only if its own
\* call was in flight during the whole deadline, and a source that answered
\* before the deadline is done and keeps its entities.
C7_OwnWorkerPerSource ==
    /\ pc # "start" =>
          \A s \in Selected :
              task[s].state \in {"running", "finished"} /\ task[s].startAt = 0
    /\ pc \in {"shutdown", "returned"} =>
          \A s \in Selected :
              (task[s].state = "finished"
                 /\ task[s].finishAt - task[s].startAt < DeadlineMs(timeout_ms))
              => /\ s \in done
                 /\ \A t \in EntityTypes :
                       Range(task[s].outcome.data[t]) # {}
                           => EntitiesOf(s, t) # {}

C7_Witness ==
    /\ pc = "shutdown"
    /\ \E s \in TimedOut : task[s].state = "running"
    /\ \E s \in Succeeded : \E t \in EntityTypes : EntitiesOf(s, t) # {}

\* C8: within one list, _dedup_list_by_id keeps the first entity of each key in
\* the original order, drops the later ones and keeps every keyless entity; the
\* result's length is the number of distinct keys plus the number of keyless
\* entities, and a second pass changes nothing.
C8_DedupFirstWins ==
    pass >= 1 =>
        /\ {deduped[k].pos : k \in 1..Len(deduped)} = KeptPositions(items)
        /\ \A k \in 1..Len(deduped) : deduped[k] = items[deduped[k].pos]
        /\ \A k \in 1..(Len(deduped) - 1) : deduped[k].pos < deduped[k + 1].pos
        /\ Len(deduped) =
              Cardinality({items[i].id : i \in 1..Len(items)} \ {""})
              + Cardinality({i \in 1..Len(items) : items[i].id = ""})

C8_Witness ==
    /\ pass = 2
    /\ Len(deduped) = 3
    /\ Len(items) = 4
    /\ Cardinality({i \in 1..Len(items) : items[i].id = ""}) = 2

\* C9: sources are concatenated, never merged: two entities with the same key
\* from two successful sources are both in the aggregate, and each collection
\* is as long as the sum of the successful sources' counts for it.
C9_ConcatenatedNotMerged ==
    pc = "returned" =>
        \A t \in EntityTypes :
            /\ Len(aggregated[t]) =
                  SumOver([s \in Succeeded |-> per_agent_result_counts[s][t]],
                          Succeeded)
            /\ \A s1, s2 \in Succeeded :
                  \A i \in KeptPositions(task[s1].outcome.data[t]) :
                  \A j \in KeptPositions(task[s2].outcome.data[t]) :
                     LET e1 == task[s1].outcome.data[t][i]
                         e2 == task[s2].outcome.data[t][j]
                     IN (s1 # s2 /\ e1.id = e2.id)
                        => {e1, e2} \subseteq Range(aggregated[t])

C9_Witness ==
    /\ pc = "returned"
    /\ \E t \in EntityTypes : \E i, j \in 1..Len(aggregated[t]) :
          /\ aggregated[t][i].sys # aggregated[t][j].sys
          /\ aggregated[t][i].id = aggregated[t][j].id
          /\ aggregated[t][i].id # ""

\* C10 as claimed: with limit = L in the filter, each of the four collections
\* of the result has at most L entities, however many sources were selected.
C10_CollectionsWithinCap ==
    (pc = "returned" /\ filter_params.limit # 0) =>
        \A t \in EntityTypes : Len(aggregated[t]) <= filter_params.limit

\* C10 as amended: with limit = L in the filter, each of the four collections
\* has at most L entities per source that succeeded, L * success_count in all.
C10_CollectionsWithinCapPerSource ==
    (pc = "returned" /\ filter_params.limit # 0) =>
        \A t \in EntityTypes :
            /\ Len(aggregated[t]) <= filter_params.limit * success_count
            /\ \A s \in Selected :
                  Cardinality(EntitiesOf(s, t)) <= filter_params.limit

C10_Witness ==
    /\ pc = "returned"
    /\ filter_params.limit # 0
    /\ success_count = 3
    /\ \E t \in EntityTypes :
          Len(aggregated[t]) = filter_params.limit * success_count

\* C11: with limit = L in the filter, every count recorded for a source in
\* per_agent_result_counts, for every entity type, is at most L.
C11_PerSourceCountsWithinCap ==
    filter_params.limit # 0 =>
        \A s \in DOMAIN per_agent_result_counts :
            \A t \in EntityTypes :
                per_agent_result_counts[s][t] <= filter_params.limit

\* two sources delivered under a cap, one of them holding more than the cap
C11_Witness ==
    /\ pc = "returned"
    /\ filter_params.limit # 0
    /\ \E s \in Succeeded :
          /\ \E t \in EntityTypes :
                per_agent_result_counts[s][t] = filter_params.limit
          /\ \E keys \in SourceKeyLists, t \in EntityTypes :
                /\ task[s].outcome.data = QueryCanonical(s, keys, filter_params)
                /\ Len(DedupListById(RawList(s, t, keys))) > filter_params.limit
    /\ Cardinality(Succeeded) >= 2

\* C12: with entity_type = E in the filter, every other collection of the
\* result is empty and every source's count for every other type is 0,
\* whichever sources succeed, fail or time out.
C12_OnlyRequestedType ==
    filter_params.entity_type # "none" =>
        \A t \in EntityTypes \ {filter_params.entity_type} :
            /\ aggregated[t] = <<>>
            /\ \A s \in DOMAIN per_agent_result_counts :
                  per_agent_result_counts[s][t] = 0

\* a typed request returned with one source delivering entities of the
\* requested type, one failing and one timing out
C12_Witness ==
    /\ pc = "returned"
    /\ filter_params.entity_type # "none"
    /\ aggregated[filter_params.entity_type] # <<>>
    /\ Succeeded # {}
    /\ Raised # {}
    /\ TimedOut # {}

\* ---- vocabulary of the routing claims ----
\* validate_systems has returned
Resolved == pc \in {"select_agents", "routed"}
\* the list validate_systems was given
Given == final_systems.v
IsUnknownEntry(s) == EntryKey(s) \notin Systems
IsKnownEntry(s) == EntryKey(s) \in Systems
\* the dropped entries and the keys of the surviving ones, in input order
DroppedEntries == SelectSeq(Given, IsUnknownEntry)
SurvivingKeys ==
    LET kept == SelectSeq(Given, IsKnownEntry)
    IN [i \in 1..Len(kept) |-> EntryKey(kept[i])]
IsUnknownWarning(w) == w.kind = "unknown_system"
IsDegradedWarning(w) == w.kind = "degraded_to_all"
NoDuplicates(seq) == \A i, j \in 1..Len(seq) : seq[i] = seq[j] => i = j
\* position of the first entry of the given list that resolves to key k
FirstSeen(k) ==
    CHOOSE i \in 1..Len(Given) :
        /\ EntryKey(Given[i]) = k
        /\ \A j \in 1..(i - 1) : EntryKey(Given[j]) # k

\* C13: validate_systems drops every unsupported entry with exactly one
\* warning per dropped entry, naming it; when a supported entry survives the
\* result is the surviving entries (their order kept, repeats collapsed).
C13_DropsUnsupportedWithWarning ==
    (Resolved /\ ~Falsy(final_systems)) =>
        /\ Range(system_keys) \subseteq Systems
        /\ SelectSeq(sys_warnings, IsUnknownWarning)
             = [i \in 1..Len(DroppedEntries) |->
                    UnknownSystemWarning(DroppedEntries[i])]
        /\ SurvivingKeys # <<>> =>
             /\ Range(system_keys) = Range(SurvivingKeys)
             /\ NoDuplicates(SurvivingKeys) => system_keys = SurvivingKeys
             /\ Len(sys_warnings) = Len(DroppedEntries)

\* ["erp", "bogus", "fin"] resolved to ["erp", "fin"] with one warning
C13_Witness ==
    /\ pc = "routed"
    /\ final_systems = Some(<<"erp", "bogus", "fin">>)
    /\ system_keys = <<"erp", "fin">>
    /\ sys_warnings = <<UnknownSystemWarning("bogus")>>

\* C14: a non-empty list without a supported entry resolves to all three
\* sources, with one warning per dropped entry and one degraded-to-all
\* warning after them.
C14_DegradesToAll ==
    (Resolved /\ ~Falsy(final_systems) /\ SurvivingKeys = <<>>) =>
        /\ system_keys = SystemOrder
        /\ Len(sys_warnings) = Len(Given) + 1
        /\ \A i \in 1..Len(Given) :
              sys_warnings[i] = UnknownSystemWarning(Given[i])
        /\ sys_warnings[Len(Given) + 1] = DegradedWarning

\* ["bogus"] resolved to all three sources with two warnings
C14_Witness ==
    /\ pc = "routed"
    /\ final_systems = Some(<<"bogus">>)
    /\ agents = SystemOrder
    /\ Len(sys_warnings) = 2

\* C15: an absent or empty list resolves to all supported sources without a
\* warning; a list of supported names resolves to those sources without a
\* warning.
C15_DefaultsAndCleanLists ==
    Resolved =>
        /\ Falsy(final_systems) =>
              system_keys = SystemOrder /\ sys_warnings = <<>>
        /\ (~Falsy(final_systems) /\ Range(Given) \subseteq Systems) =>
              /\ Range(system_keys) = Range(Given)
              /\ NoDuplicates(Given) => system_keys = Given
              /\ sys_warnings = <<>>

\* query_across_systems called without systems: all sources, no warning
C15_Witness ==
    /\ pc = "routed"
    /\ systems = NoneArg
    /\ final_systems = NoneArg
    /\ agents = SystemOrder
    /\ sys_warnings = <<>>

\* C16: for every input the resolved list is non-empty, duplicate-free, made
\* of supported names, in first-seen order, and one agent is instantiated
\* per resolved name.
C16_ResolvedListWellFormed ==
    Resolved =>
        /\ system_keys # <<>>
        /\ NoDuplicates(system_keys)
        /\ Range(system_keys) \subseteq Systems
        /\ (~Falsy(final_systems) /\ SurvivingKeys # <<>>) =>
              \A i, j \in 1..Len(system_keys) :
                  i < j => FirstSeen(system_keys[i]) < FirstSeen(system_keys[j])
        /\ pc = "routed" => agents = system_keys

\* ["fin", "erp", "fin"] resolved to the two agents fin, erp
C16_Witness ==
    /\ pc = "routed"
    /\ final_systems = Some(<<"fin", "erp", "fin">>)
    /\ agents = <<"fin", "erp">>

\* C20: a non-empty systems list given by the caller of nl_query is the one
\* routed, whatever was inferred: the agents queried are the caller's
\* resolved list.
C20_ExplicitSystemsWin ==
    ~Falsy(systems) =>
        /\ pc \in {"route", "select_agents", "routed"} => final_systems = systems
        /\ pc = "routed" =>
              LET own == {EntryKey(systems.v[i]) : i \in 1..Len(systems.v)}
                             \cap Systems
              IN Range(agents) = (IF own = {} THEN Systems ELSE own)

\* the caller asked for erp, the inference said fin, erp alone is queried
C20_Witness ==
    /\ pc = "routed"
    /\ systems = Some(<<"erp">>)
    /\ inferred_sys = Some(<<"fin">>)
    /\ agents = <<"erp">>

\* ---- vocabulary of the filter claims ----
Validated == pc = "validated"
\* the dict validate_filter_params was given ({} for None)
RawDict == IF Falsy(raw_filter_params) THEN <<>> ELSE raw_filter_params.v
WarningsOn(kind) == {i \in 1..Len(fp_warnings) : fp_warnings[i].kind = kind}
GivenType == Get(RawDict, "entity_type")
\* the integer k is what the value stands for: itself, the whole part of a
\* float that is not negative, the number a decimal string spells
Denotes(v, k) ==
    \/ v.ty = "int" /\ v.n = k
    \/ v.ty = "float" /\ 10 * k <= v.n /\ v.n < 10 * k + 10
    \/ v.ty = "str" /\ ToString(k) = v.s
DenotesPositive(v) == \E k \in 1..(MaxLimit + 1) : Denotes(v, k)
\* a value as a number of tenths, where it is a number
Tenths(v) ==
    CASE v.ty = "int" -> 10 * v.n
      [] v.ty = "float" -> v.n
      [] v.ty = "str" -> 10 * (CHOOSE k \in Literals : ToString(k) = v.s)

\* C17: an entity_type that is given (not null) and is not one of the four
\* supported types, case and surrounding blanks aside, is removed with one
\* warning; the output entity_type is absent, null as given, or supported.
C17_UnsupportedTypeRemoved ==
    Validated =>
        LET out == Get(normalized, "entity_type")
            form == Lower(Strip(Str(GivenType)))
        IN /\ out = PyNone \/ (out.ty = "str" /\ out.s \in EntityTypes)
           /\ GivenType = PyNone =>
                 /\ WarningsOn("entity_type") = {}
                 /\ "entity_type" \in DOMAIN normalized
                        <=> "entity_type" \in DOMAIN RawDict
           /\ (GivenType # PyNone /\ form \notin EntityTypes) =>
                 /\ "entity_type" \notin DOMAIN normalized
                 /\ \E i \in 1..Len(fp_warnings) :
                       /\ WarningsOn("entity_type") = {i}
                       /\ fp_warnings[i].value = GivenType
           /\ (GivenType # PyNone /\ form \in EntityTypes) =>
                 /\ out = PyStr(form)
                 /\ WarningsOn("entity_type") = {}

\* entity_type "bogus" removed with its warning
C17_Witness ==
    /\ Validated
    /\ GivenType = PyStr("bogus")
    /\ "entity_type" \notin DOMAIN normalized
    /\ WarningsOn("entity_type") # {}

\* C18 as claimed: a limit is either removed with a warning or passed through
\* with its value unchanged.
C18_LimitRemovedOrUnchanged ==
    (Validated /\ "limit" \in DOMAIN RawDict) =>
        \/ "limit" \notin DOMAIN normalized /\ WarningsOn("limit") # {}
        \/ /\ "limit" \in DOMAIN normalized
           /\ Tenths(normalized["limit"]) = Tenths(RawDict["limit"])

\* C18 as amended: a limit that int() cannot convert, or converts to a value
\* that is not positive, is removed with one warning; any other limit comes
\* out as int(limit): a positive integer unchanged, a decimal string as the
\* integer it spells, a float cut to its whole part.
C18_LimitConvertedToInt ==
    (Validated /\ "limit" \in DOMAIN RawDict) =>
        LET lim == RawDict["limit"]
        IN /\ ~DenotesPositive(lim) =>
                 /\ "limit" \notin DOMAIN normalized
                 /\ \E i \in 1..Len(fp_warnings) :
                       /\ WarningsOn("limit") = {i}
                       /\ fp_warnings[i].value = lim
           /\ DenotesPositive(lim) =>
                 /\ "limit" \in DOMAIN normalized
                 /\ normalized["limit"].ty = "int"
                 /\ Denotes(lim, normalized["limit"].n)
                 /\ WarningsOn("limit") = {}
           /\ (lim.ty = "int" /\ lim.n > 0) => normalized["limit"] = lim

\* limit 1.5 came out as 1 without a warning
C18_Witness ==
    /\ Validated
    /\ "limit" \in DOMAIN RawDict
    /\ RawDict["limit"] = PyFloat(15)
    /\ normalized["limit"] = PyInt(1)
    /\ WarningsOn("limit") = {}

\* C19: every key other than entity_type and limit is in the output exactly
\* as given, no value altered and no key dropped or added, also when a date
\* bound is not a string.
C19_OtherKeysUntouched ==
    pc \in {"entity_type", "limit", "dates", "validated"} =>
        \A k \in (DOMAIN RawDict \cup DOMAIN normalized) \ {"entity_type", "limit"} :
            /\ k \in DOMAIN RawDict
            /\ k \in DOMAIN normalized
            /\ normalized[k] = RawDict[k]

\* an integer date_from and a dateRange came through as given
C19_Witness ==
    /\ Validated
    /\ OddDate(RawDict, "date_from")
    /\ normalized["date_from"] = RawDict["date_from"]
    /\ "dateRange" \in DOMAIN normalized
    /\ WarningsOn("date_type") # {}

\* ---- order of the aggregate ----
\* the entities of source s in aggregated[t], in the order they stand there
BlockOf(s, t) == SelectSeq(aggregated[t], LAMBDA e : e.sys = s)

\* C25 as claimed: successful sources' lists stand in the aggregate in the
\* order in which their tasks completed.
C25_AppendedInCompletionOrder ==
    pc = "returned" =>
        \A t \in EntityTypes :
            \A i, j \in 1..Len(aggregated[t]) :
                (i < j /\ aggregated[t][i].sys # aggregated[t][j].sys) =>
                    task[aggregated[t][i].sys].finishAt
                        <= task[aggregated[t][j].sys].finishAt

\* C25 as amended: each successful source's entities stand contiguous in the
\* aggregate, in that source's own return order after deduplication; the
\* order of the sources among themselves is the order in which the loop over
\* wait()'s done set visits them, which need not be completion order.
C25_ContiguousInReturnOrder ==
    pc = "returned" =>
        \A t \in EntityTypes :
            /\ \A s \in Succeeded :
                  BlockOf(s, t) = DedupListById(task[s].outcome.data[t])
            /\ \A i, j, k \in 1..Len(aggregated[t]) :
                  (i < j /\ j < k /\ aggregated[t][i].sys = aggregated[t][k].sys)
                      => aggregated[t][j].sys = aggregated[t][i].sys
            /\ \A i, j \in 1..Len(aggregated[t]) :
                  (i < j /\ aggregated[t][i].sys = aggregated[t][j].sys)
                      => aggregated[t][i].pos < aggregated[t][j].pos

\* a source that completed later stands before one that completed earlier
C25_Witness ==
    /\ pc = "returned"
    /\ \E t \in EntityTypes :
          \E i, j \in 1..Len(aggregated[t]) :
              /\ i < j
              /\ task[aggregated[t][i].sys].finishAt
                    > task[aggregated[t][j].sys].finishAt
              /\ Len(BlockOf(aggregated[t][i].sys, t)) >= 2

\* ---- vocabulary of the inference claims ----
\* infer has returned
Inferred == pc \in {"infer_return", "bridged"}
\* the model's reply could not be read by the router
Malformed == ~parsed.none /\ ReplyRaises(parsed.v)
\* the main path ran to its end
MainOk == ~NotParsed(parsed) /\ ~ReplyRaises(parsed.v)
WarningsOfKind(kind) == {i \in 1..Len(llm_warnings) : llm_warnings[i].kind = kind}
DateKeys == {"date_from", "date_to"}
\* the caller's default_filters as a dict
DefaultsDict == IF Falsy(default_filters) THEN <<>> ELSE default_filters.v

\* C21 as claimed: a timeout the caller of nl_query supplied is the deadline
\* passed on, whatever the model inferred.
C21_CallerTimeoutWins ==
    (pc = "bridged" /\ nl_timeout_ms # DefaultTimeoutMs) =>
        timeout_ms = nl_timeout_ms

\* C22: a timeout inferred by the model and used by nl_query is passed on cut
\* into 50..60000.
C22_InferredTimeoutClamped ==
    (pc = "bridged" /\ ~inferred_timeout.none) =>
        LET t == inferred_timeout.v.n
        IN /\ timeout_ms \in TimeoutFloor..TimeoutCeiling
           /\ t < TimeoutFloor => timeout_ms = TimeoutFloor
           /\ t > TimeoutCeiling => timeout_ms = TimeoutCeiling
           /\ t \in TimeoutFloor..TimeoutCeiling => timeout_ms = t

\* the model said 70000, the executor gets 60000
C22_Witness ==
    /\ pc = "bridged"
    /\ inferred_timeout = Some(PyInt(70000))
    /\ timeout_ms = TimeoutCeiling

\* C23: when the main call yields no parsed object, or an object the router
\* cannot read, infer does not raise: it goes on to return the keyword
\* fallback's result with llm_status "degraded" and the degradation warning.
C23_FailureDegrades ==
    /\ pc # "raised"
    /\ (Inferred /\ (parsed.none \/ Malformed)) =>
          LET r == FallbackValidated(text, default_filters)
          IN /\ llm_metrics.llm_status = "degraded"
             /\ FallbackNotice \in Range(llm_warnings)
             /\ normalized_sys = r.sys
             /\ \A k \in (DOMAIN r.fp \cup DOMAIN normalized_fp) \ DateKeys :
                   k \in DOMAIN r.fp /\ k \in DOMAIN normalized_fp
                       /\ normalized_fp[k] = r.fp[k]
             /\ narrow # "both" => normalized_fp = r.fp

\* a reply whose filter_params is a string: fallback result, status degraded
C23_Witness ==
    /\ Inferred
    /\ Malformed
    /\ llm_metrics.llm_used
    /\ llm_metrics.llm_status = "degraded"
    /\ text.kw = {"fin"}
    /\ normalized_sys = <<"fin">>

\* C24 as claimed: in the filter infer returns, entity_type is absent or
\* supported and limit is absent or a positive integer, on every path and for
\* every default_filters.
C24_ReturnedFilterNormalized ==
    Inferred =>
        /\ LET et == Get(normalized_fp, "entity_type")
           IN et = PyNone \/ (et.ty = "str" /\ et.s \in EntityTypes)
        /\ "limit" \in DOMAIN normalized_fp =>
              normalized_fp["limit"].ty = "int" /\ normalized_fp["limit"].n > 0

\* the range the recognizers compute from the text: the first fixed phrase of
\* the chain, else the relative phrase
PhraseOrigin ==
    IF text.fixed # {} THEN FirstOf(FixedOrder, text.fixed)
    ELSE IF text.rel > 0 THEN "last_" \o ToString(text.rel) \o "_" \o text.unit
    ELSE "none"
PhraseWarnings == WarningsOfKind("fixed_phrase") \cup WarningsOfKind("relative_phrase")

\* C26: in _fallback_parse a recognized phrase leaves a date_from or date_to
\* that the incoming filter already holds as it is and fills a bound only when
\* its key is missing; each recognized phrase appends exactly one warning.
C26_PhraseFillsOnlyMissing ==
    pc = "fallback_parsed" =>
        /\ \A k \in DateKeys :
              IF k \in DOMAIN DefaultsDict
              THEN normalized_fp[k] = DefaultsDict[k]
              ELSE IF PhraseOrigin = "none"
                   THEN k \notin DOMAIN normalized_fp
                   ELSE normalized_fp[k] =
                           Iso(PhraseOrigin, IF k = "date_from" THEN "from" ELSE "to")
        /\ Cardinality(WarningsOfKind("fixed_phrase")) =
              (IF text.fixed # {} THEN 1 ELSE 0)
        /\ Cardinality(WarningsOfKind("relative_phrase")) =
              (IF text.rel > 0 THEN 1 ELSE 0)

\* a fixed and a relative phrase, date_from given by the caller: date_from is
\* kept, date_to is the fixed phrase's, two warnings
C26_Witness ==
    /\ pc = "fallback_parsed"
    /\ text.fixed = {"last_month", "today"}
    /\ text.rel = 3
    /\ DOMAIN DefaultsDict = {"date_from"}
    /\ normalized_fp["date_from"] = Iso("default", "from")
    /\ normalized_fp["date_to"] = Iso("last_month", "to")
    /\ Cardinality(PhraseWarnings) = 2

\* infer has returned by way of the narrow stage
PastNarrow == Inferred /\ ~Malformed
SwitchesOn == settings.enable_time_enhancements /\ settings.enable_narrow_time_llm
\* a bound the filter held before the narrow stage
HeldBefore(k) == Truthy(Get(fp_before_narrow, k))

\* C27: the narrow call is issued only with both switches on and a bound
\* missing after the earlier stages; time_narrow_used is set only when the
\* call returned both bounds, and otherwise the filter is as it was.
C27_NarrowOnlyWhenWanted ==
    /\ narrow # "not_called" =>
          /\ SwitchesOn
          /\ \E k \in DateKeys : ~HeldBefore(k)
    /\ llm_metrics.time_narrow_used => narrow = "both"
    /\ (PastNarrow /\ narrow # "both") => normalized_fp = fp_before_narrow

\* date_to missing, the call made and nothing returned: date_from as before
C27_Witness ==
    /\ PastNarrow
    /\ narrow = "none"
    /\ ~llm_metrics.time_narrow_used
    /\ HeldBefore("date_from")
    /\ "date_to" \notin DOMAIN normalized_fp
    /\ normalized_fp["date_from"] = fp_before_narrow["date_from"]

\* C28 as claimed: when exactly one bound is set after the earlier stages and
\* the narrow call returns both, the bound that was set keeps its value and
\* only the missing one is filled.
C28_NarrowKeepsSetBound ==
    (PastNarrow /\ narrow = "both") =>
        \A k \in DateKeys :
            /\ HeldBefore(k) => normalized_fp[k] = fp_before_narrow[k]
            /\ ~HeldBefore(k) =>
                  normalized_fp[k] = Iso("narrow", IF k = "date_from" THEN "from" ELSE "to")

\* C29 as claimed: time_anchor_override_used is set only when the main call
\* succeeded, enable_time_enhancements is on and the recognizers matched a
\* fixed or relative phrase in the text, for any default_filters.
C29_OverrideOnlyOnPhrase ==
    llm_metrics.time_anchor_override_used =>
        /\ MainOk
        /\ settings.enable_time_enhancements
        /\ PhraseOrigin # "none"

\* the date bounds of the model's reply after validation
ReplyDates == ValidateFilterParams(Some(parsed.v.filter_params.v)).d
\* the bound the recognizers compute from the text
Computed(k) == Iso(PhraseOrigin, IF k = "date_from" THEN "from" ELSE "to")
AnchorCase == Inferred /\ MainOk /\ PhraseOrigin # "none"

\* C30 as claimed: the main call succeeded and the text holds a phrase. With
\* enable_time_enhancements on the returned bounds are the computed range
\* whatever the model returned; with it off the model's bounds are kept and
\* the missing ones filled from the computed range; a warning naming the path
\* is emitted in both cases.
C30_AnchorAlwaysWarns ==
    AnchorCase =>
        IF settings.enable_time_enhancements
        THEN /\ \A k \in DateKeys : Get(normalized_fp, k) = Computed(k)
             /\ WarningsOfKind("anchor_override") # {}
        ELSE /\ \A k \in DateKeys :
                   Get(normalized_fp, k) =
                       IF k \in DOMAIN ReplyDates THEN ReplyDates[k] ELSE Computed(k)
             /\ WarningsOfKind("anchor_fill") # {}

\* C30: the main call succeeded, the text holds a phrase and the fallback's
\* output, which keeps a bound given in default_filters, holds both bounds.
\* With enable_time_enhancements on the returned bounds are the fallback's and
\* one override warning is emitted; with it off the model's bounds are kept,
\* the missing ones are the fallback's, and one fill warning is emitted for
\* each bound filled: none when the model returned both.
C30_AnchorMerge ==
    LET fb == FallbackParse(text, default_filters).fp
    IN (AnchorCase /\ \A k \in DateKeys : Truthy(Get(fb, k))) =>
          IF settings.enable_time_enhancements
          THEN /\ \A k \in DateKeys : normalized_fp[k] = fb[k]
               /\ Cardinality(WarningsOfKind("anchor_override")) = 1
               /\ WarningsOfKind("anchor_fill") = {}
          ELSE /\ \A k \in DateKeys :
                     normalized_fp[k] =
                         IF k \in DOMAIN ReplyDates THEN ReplyDates[k] ELSE fb[k]
               /\ Cardinality(WarningsOfKind("anchor_fill")) =
                     Cardinality(DateKeys \ DOMAIN ReplyDates)
               /\ WarningsOfKind("anchor_override") = {}

\* the switch off, the model returned date_from only: date_from kept, date_to
\* computed, one fill warning
C30_Witness ==
    /\ AnchorCase
    /\ ~settings.enable_time_enhancements
    /\ DOMAIN ReplyDates \cap DateKeys = {"date_from"}
    /\ normalized_fp["date_from"] = Iso("llm", "from")
    /\ normalized_fp["date_to"] = Computed("date_to")
    /\ Cardinality(WarningsOfKind("anchor_fill")) = 1

\* C31: in every result of infer time_narrow_used and
\* time_anchor_override_used are not both set: after an override both bounds
\* are held and the narrow call is not made.
C31_NarrowAndOverrideExclusive ==
    /\ ~(llm_metrics.time_narrow_used /\ llm_metrics.time_anchor_override_used)
    /\ (PastNarrow /\ llm_metrics.time_anchor_override_used) =>
          /\ narrow = "not_called"
          /\ \A k \in DateKeys : HeldBefore(k)

\* an override with both switches on: the narrow call was not made
C31_Witness ==
    /\ PastNarrow
    /\ SwitchesOn
    /\ llm_metrics.time_anchor_override_used
    /\ ~llm_metrics.time_narrow_used
    /\ narrow = "not_called"
    /\ PhraseOrigin # "none"

\* the keyword families by the claimed priority, with what each stands for
C32_Family ==
    IF "fin" \in text.kw THEN [sys |-> "fin", entity_type |-> "transactions"]
    ELSE IF "hr" \in text.kw THEN [sys |-> "hr", entity_type |-> "persons"]
    ELSE [sys |-> "erp", entity_type |-> "customers"]

\* C32: _fallback_parse selects one source, finance before HR before ERP, when
\* keyword families match; the family's entity_type and limit 50 are set only
\* for a key default_filters does not hold; with no keyword no source is
\* inferred and nothing is added.
C32_KeywordFamily ==
    pc = "fallback_parsed" =>
        /\ inferred_sys = IF text.kw = {} THEN NoneArg ELSE Some(<<C32_Family.sys>>)
        /\ \A k \in {"entity_type", "limit"} :
              IF k \in DOMAIN DefaultsDict
              THEN normalized_fp[k] = DefaultsDict[k]
              ELSE IF text.kw = {}
                   THEN k \notin DOMAIN normalized_fp
                   ELSE normalized_fp[k] =
                           IF k = "limit" THEN PyInt(50)
                           ELSE PyStr(C32_Family.entity_type)

\* finance and ERP keywords, a limit given by the caller: finance is chosen,
\* the limit is kept and the entity type is transactions
C32_Witness ==
    /\ pc = "fallback_parsed"
    /\ text.kw = {"fin", "erp"}
    /\ DOMAIN DefaultsDict = {"limit"}
    /\ inferred_sys = Some(<<"fin">>)
    /\ normalized_fp["limit"] = PyInt(7)
    /\ normalized_fp["entity_type"] = PyStr("transactions")

\* the claimed priority of the fixed-period phrases
C33_Priority ==
    <<"this_week", "last_week", "this_month", "last_month", "this_year",
      "last_year", "year_before_last", "this_quarter", "last_quarter", "today",
      "yesterday", "day_before_yesterday", "last_half_year", "last_one_quarter">>
C33_Applied ==
    C33_Priority[CHOOSE i \in 1..Len(C33_Priority) :
                    /\ C33_Priority[i] \in text.fixed
                    /\ \A j \in 1..(i - 1) : C33_Priority[j] \notin text.fixed]

\* C33: _fallback_parse applies at most one fixed-period phrase, the first of
\* the priority order found in the text; a "last N" phrase is evaluated after
\* it and changes no bound the fixed phrase has set.
C33_OneFixedPhraseFirst ==
    pc = "fallback_parsed" =>
        /\ Cardinality(WarningsOfKind("fixed_phrase")) <= 1
        /\ text.fixed # {} =>
              /\ \A i \in WarningsOfKind("fixed_phrase") :
                    llm_warnings[i].about = C33_Applied
              /\ \A i \in WarningsOfKind("fixed_phrase"),
                    j \in WarningsOfKind("relative_phrase") : i < j
              /\ \A k \in DateKeys \ DOMAIN DefaultsDict :
                    normalized_fp[k] =
                        Iso(C33_Applied, IF k = "date_from" THEN "from" ELSE "to")

\* last month, today and a "last 3" phrase in one text: last month's range
C33_Witness ==
    /\ pc = "fallback_parsed"
    /\ text.fixed = {"last_month", "today"}
    /\ text.rel = 3
    /\ DateKeys \cap DOMAIN DefaultsDict = {}
    /\ normalized_fp["date_from"] = Iso("last_month", "from")
    /\ normalized_fp["date_to"] = Iso("last_month", "to")
    /\ Cardinality(WarningsOfKind("relative_phrase")) = 1

\* C39 as claimed: when _fallback_parse recognizes a phrase, a bound for which
\* default_filters carries no value, the key missing or null, is the computed
\* one in the returned filter.
C39_NullDefaultIsFilled ==
    (pc = "fallback_parsed" /\ PhraseOrigin # "none") =>
        \A k \in DateKeys :
            Get(DefaultsDict, k) = PyNone => Get(normalized_fp, k) = Computed(k)

\* C37 as claimed: the metrics agree with the path taken. llm_used with
\* llm_status "ok" is reported only when the filter was made from the model's
\* parsed reply; a result of the fallback branch, the empty object's
\* included, reports llm_used false and llm_status "degraded".
C37_MetricsAgreeWithPath ==
    Inferred =>
        /\ (llm_metrics.llm_used /\ llm_metrics.llm_status = "ok") => MainOk
        /\ NotParsed(parsed) =>
              ~llm_metrics.llm_used /\ llm_metrics.llm_status = "degraded"

\* C38 as claimed: the fallback's degradation notice is among the warnings
\* only when llm_status is "degraded".
C38_NoticeOnlyWhenDegraded ==
    (Inferred /\ FallbackNotice \in Range(llm_warnings)) =>
        llm_metrics.llm_status = "degraded"

\* C40 as claimed: on the main path a reply without systems and a text that
\* matches a keyword family give the family's single source as systems.
C40_SystemsFilledFromKeywords ==
    (Inferred /\ MainOk /\ parsed.v.systems.shape = "absent" /\ text.kw # {}) =>
        normalized_sys = <<C32_Family.sys>>

\* C35: in every result of execute success_count + fail_count is the number
\* of selected sources and errors holds fail_count strings.
C35_TalliesCoverSources ==
    pc = "returned" =>
        /\ success_count + fail_count = Len(agents)
        /\ Len(errors) = fail_count
        /\ fail_count = Cardinality(Raised) + Cardinality(TimedOut)

\* three sources: one returned data, one raised, one timed out
C35_Witness ==
    /\ pc = "returned"
    /\ Len(agents) = 3
    /\ success_count = 1
    /\ fail_count = 2
    /\ Cardinality(Raised) = 1
    /\ Cardinality(TimedOut) = 1
    /\ Len(errors) = 2

\* the error string execute holds for a source whose call raised
C36_ErrorOf(s) ==
    [kind |-> IF task[s].outcome.kind = "agent_error" THEN "failed" ELSE "unexpected",
     source |-> s, timeout |-> 0]

\* C36: when no source times out, the result of execute is fixed by the
\* sources' outcomes, whatever the interleaving and the completion order,
\* up to the order across sources: per-source counts, the tallies, the
\* entities of each source in the aggregate and the set of error strings.
C36_OrderIndependent ==
    (pc = "returned" /\ TimedOut = {}) =>
        /\ success_count = Cardinality(Succeeded)
        /\ fail_count = Cardinality(Raised)
        /\ Range(errors) = {C36_ErrorOf(s) : s \in Raised}
        /\ \A t \in EntityTypes :
              /\ \A i \in 1..Len(aggregated[t]) : aggregated[t][i].sys \in Succeeded
              /\ \A s \in Selected :
                    /\ BlockOf(s, t) =
                          IF s \in Succeeded
                          THEN DedupListById(task[s].outcome.data[t])
                          ELSE <<>>
                    /\ per_agent_result_counts[s][t] = Len(BlockOf(s, t))

\* two sources that returned entities of one type, the one that completed
\* later standing first in the aggregate
C36_Witness ==
    /\ pc = "returned" /\ TimedOut = {}
    /\ \E t \in EntityTypes : \E i, j \in 1..Len(aggregated[t]) :
          /\ i < j
          /\ aggregated[t][i].sys # aggregated[t][j].sys
          /\ task[aggregated[t][i].sys].finishAt > task[aggregated[t][j].sys].finishAt
    /\ Raised # {}

\* the integer a numeral in characters denotes
C34_Denotes(tokens) ==
    LET d(tok) == IF tok = "liang" THEN 2
                  ELSE CHOOSE i \in 1..9 : ChineseDigits[i] = tok
    IN IF tokens = <<"shi">> THEN 10
       ELSE IF Len(tokens) = 1 THEN d(tokens[1])
       ELSE IF Len(tokens) = 2 /\ tokens[1] = "shi" THEN 10 + d(tokens[2])
       ELSE IF Len(tokens) = 2 THEN 10 * d(tokens[1])
       ELSE 10 * d(tokens[1]) + d(tokens[3])
\* the N of the written phrase
C34_N == IF phrase.digits THEN phrase.n ELSE C34_Denotes(phrase.tokens)

\* C34 as claimed: without dates in default_filters, a "last N <unit>"
\* phrase with N from 1 to the sixties, in digits or in characters, with or
\* without the measure word, gives date_to = now and date_from = now minus
\* N of that unit.
C34_ExactlyN ==
    (pc = "fallback_parsed" /\ phrase # NoPhrase
        /\ (phrase.digits \/ phrase.tokens # <<"ling">>) /\ C34_N >= 1) =>
        LET origin == "last_" \o ToString(C34_N) \o "_" \o DeltaUnit(phrase.word)
        IN /\ Get(normalized_fp, "date_from") = Iso(origin, "from")
           /\ Get(normalized_fp, "date_to") = Iso(origin, "to")
====
